---- MODULE Spec2Model ----
(***************************************************************************)
(* A model of marapp-metrics: the measure pipeline shared by every metric  *)
(* (area gate, _breakdown_shape, _create_grid, _intersect, _aggregate,     *)
(* _package_metric) and the grid generator on its own.                     *)
(*                                                                         *)
(* Geometry is modelled on an integer lattice: a polygon is a non-empty    *)
(* set of unit squares <<x, y>> (the square [x, x+1] x [y, y+1]), one      *)
(* lattice unit being one arc degree and one raster pixel, with a pixel    *)
(* area of one km2.  The remote reduction service is modelled by what it   *)
(* returns: per feature, the unweighted sum of each band over the pixels   *)
(* of the feature's geometry, masked pixels left out.                      *)
(***************************************************************************)
EXTENDS Integers, Sequences, FiniteSets, TLC

\* ------------------------------------------------------------------ bounds
\* rows of the input GeoDataFrame
MaxEntries == 2
\* largest chunk_size a caller passes
MaxChunk == 2
\* side of the lattice the grid generator's features are drawn from
Extent == 3
\* largest grid_size_degrees handed to the grid generator
MaxGridSize == 4

\* ----------------------------------------------------------------- helpers
Min(a, b) == IF a < b THEN a ELSE b

Range(s) == {s[i] : i \in DOMAIN s}

RECURSIVE SumSet(_, _)
\* sum of f[x] over the finite set S
SumSet(S, f) ==
    IF S = {} THEN 0
    ELSE LET x == CHOOSE y \in S : TRUE IN f[x] + SumSet(S \ {x}, f)

RECURSIVE SumSeq(_)
\* Python's sum(list): a left-to-right fold
SumSeq(s) == IF s = <<>> THEN 0 ELSE SumSeq(SubSeq(s, 1, Len(s) - 1)) + s[Len(s)]

RECURSIVE Flatten(_)
Flatten(ss) == IF ss = <<>> THEN <<>> ELSE Head(ss) \o Flatten(Tail(ss))

\* dict.update: g's keys win
Merge(f, g) ==
    [k \in (DOMAIN f) \cup (DOMAIN g) |-> IF k \in DOMAIN g THEN g[k] ELSE f[k]]

\* kwargs.get(name, default)
Get(kw, name, default) == IF name \in DOMAIN kw THEN kw[name] ELSE default

\* Python's None, and a value that is not None
None == [none |-> TRUE]

\* --------------------------------------------------------- decimal numbers
\* A float literal such as 3.0e9 or 1e18 is kept as mantissa and decimal
\* exponent, m * 10^e, so that 1e18 needs no 64-bit integer.
Dec(m, e) == [m |-> m, e |-> e]

RECURSIVE Pow10(_)
Pow10(n) == IF n = 0 THEN 1 ELSE 10 * Pow10(n - 1)

RECURSIVE DecNorm(_)
\* the same number with no trailing zero in the mantissa
DecNorm(a) ==
    IF a.m # 0 /\ a.m % 10 = 0 THEN DecNorm(Dec(a.m \div 10, a.e + 1)) ELSE a

DecOfInt(n) == DecNorm(Dec(n, 0))

DecMul(a, b) == DecNorm(Dec(a.m * b.m, a.e + b.e))

\* a > b; mantissas stay below 10^4, so a shift of more than 5 digits decides
DecGT(a, b) ==
    LET x  == DecNorm(a)
        y  == DecNorm(b)
        lo == Min(x.e, y.e)
        dx == x.e - lo
        dy == y.e - lo
    IN  IF dx > 5 THEN x.m > 0
        ELSE IF dy > 5 THEN y.m = 0 /\ x.m > 0
        ELSE x.m * Pow10(dx) > y.m * Pow10(dy)

\* a quotient n / d of the division operator, kept exact
Rat(n, d) == [num |-> n, den |-> d]

\* (a / b) for quotients a and b
RatDiv(a, b) == Rat(a.num * b.den, a.den * b.num)

\* ----------------------------------------------------------------- metrics
Classes ==
    { "BiodiversityIntactnessMetric", "TreeLoss", "HumanFootprint",
      "HumanInfluenceEnsembleMetric", "LandUseLandCover", "ModisEvi",
      "ModisFire", "ProtectedAreas", "TerrestrialCarbon" }

\* the class attribute slug; the three read from earthengine.yaml carry the
\* names the gate's rules and the tests use
slug(c) ==
    CASE c = "BiodiversityIntactnessMetric" -> "biodiversity-intactness"
      [] c = "TreeLoss"                     -> "tree-loss"
      [] c = "HumanFootprint"               -> "human-footprint"
      [] c = "HumanInfluenceEnsembleMetric" -> "human-impact"
      [] c = "LandUseLandCover"             -> "land-use"
      [] c = "ModisEvi"                     -> "modis-evi"
      [] c = "ModisFire"                    -> "modis-fire"
      [] c = "ProtectedAreas"               -> "protected-areas"
      [] c = "TerrestrialCarbon"            -> "terrestrial-carbon"

default_scale(c) ==
    CASE c = "BiodiversityIntactnessMetric" -> 300
      [] c = "TreeLoss"                     -> 30
      [] c = "HumanFootprint"               -> 300
      [] c = "HumanInfluenceEnsembleMetric" -> 1000
      [] c = "LandUseLandCover"             -> 300
      [] c = "ModisEvi"                     -> 250
      [] c = "ModisFire"                    -> 500
      [] c = "ProtectedAreas"               -> 30
      [] c = "TerrestrialCarbon"            -> 300

\* every metric class sets default_best_effort = True
default_best_effort(c) == TRUE

\* MetricBase.__init__(**kw): the attributes read from the keyword
\* arguments, then the two adjustments for simplify and for best effort
MetricBaseInit(kw) ==
    [ grid               |-> Get(kw, "grid", FALSE),
      simplify           |-> Get(kw, "simplify", FALSE),
      simplify_tolerance |-> IF Get(kw, "simplify", FALSE) THEN Dec(1, -3) ELSE Dec(1, -5),
      area_threshold     |-> Get(kw, "area_threshold", 1000000),
      grid_size_degrees  |-> Get(kw, "grid_size_degrees", 1),
      precision          |-> IF Get(kw, "simplify", FALSE) THEN 4 ELSE Get(kw, "precision", 5),
      _scale             |-> Get(kw, "scale", 300),
      _best_effort       |-> Get(kw, "best_effort", FALSE),
      max_pixels         |-> IF Get(kw, "best_effort", FALSE) THEN Dec(1, 7)
                             ELSE Get(kw, "max_pixels", Dec(1, 18)),
      chunk_size         |-> Get(kw, "chunk_size", 500),
      use_exceeds_limit  |-> Get(kw, "use_exceeds_limit", FALSE) ]

\* the keyword arguments a class hands to super().__init__: ModisEvi calls
\* super().__init__() with none
SuperKwargs(c, kw) == IF c = "ModisEvi" THEN <<>> ELSE kw

\* <Class>.__init__(**kw): the base attributes, then the compute flags
Construct(c, kw) ==
    [ MetricBaseInit(SuperKwargs(c, kw)) EXCEPT
        !._scale       = Get(kw, "scale", default_scale(c)),
        !._best_effort = Get(kw, "best_effort", default_best_effort(c)) ]

\* ---------------------------------------------------------------- the gate
\* the default value of _exceeds_limit's rules parameter
Rules ==
    << [slugs |-> {"tree-loss", "protected-areas"}, threshold |-> Dec(30, 8)],
       [slugs |-> {"modis-fire", "modis-evi"},      threshold |-> Dec(11, 6)] >>

\* pixels > threshold, with pixels = area_km2 * 1e6 / scale ** 2; the
\* division by the positive scale ** 2 is carried to the other side
PixelsExceedLoose(area, scale, threshold) ==
    ~ DecGT(DecMul(threshold, DecOfInt(scale * scale)), DecMul(area, Dec(1, 6)))

PixelsExceed(area, scale, threshold) ==
    DecGT(DecMul(area, Dec(1, 6)), DecMul(threshold, DecOfInt(scale * scale)))

\* MetricBase._exceeds_limit(area_km2)
_exceeds_limit(c, me, area) ==
    /\ area # None
    /\ me.use_exceeds_limit
    /\ \E i \in DOMAIN Rules :
          /\ slug(c) \in Rules[i].slugs
          /\ PixelsExceed(area, me._scale, Rules[i].threshold)

\* ---------------------------------------------------------------- geometry
\* ee.Geometry.Rectangle(x1, y1, x2, y2)
Rectangle(x1, y1, x2, y2) == [x1 |-> x1, y1 |-> y1, x2 |-> x2, y2 |-> y2]

\* the unit squares a rectangle covers
Squares(r) == {<<x, y>> : x \in r.x1 .. (r.x2 - 1), y \in r.y1 .. (r.y2 - 1)}

\* the lattice points of the rectangle as a geometry: a polygon holds its
\* boundary, so the corners and the edges belong to it
Points(r) == {<<x, y>> : x \in r.x1 .. r.x2, y \in r.y1 .. r.y2}

MinOf(S) == CHOOSE m \in S : \A n \in S : m <= n
MaxOf(S) == CHOOSE m \in S : \A n \in S : m >= n

\* ee.Feature(geom, {})
Feature(geom) == [geom |-> geom, props |-> <<>>]

\* ee_feature.bounds(): the corners of the bounding box
Bounds(geom) ==
    [ lon_start |-> MinOf({p[1] : p \in geom}),
      lon_end   |-> MaxOf({p[1] : p \in geom}) + 1,
      lat_start |-> MinOf({p[2] : p \in geom}),
      lat_end   |-> MaxOf({p[2] : p \in geom}) + 1 ]

lon_width(b) == b.lon_end - b.lon_start
lat_width(b) == b.lat_end - b.lat_start

\* the test of grid size against the bounding box that skips the grid
GridLargerThanFeatureEither(g, b) == g > lon_width(b) \/ g > lat_width(b)

GridLargerThanFeature(g, b) == g > lon_width(b) /\ g > lat_width(b)

\* the loop conditions lon < lon_end and lat < lat_end
LoopContinuesInclusive(pos, end) == pos <= end

LoopContinues(pos, end) == pos < end

RECURSIVE LatLoop(_, _, _, _)
\* the inner while loop: one rectangle per step of g from lat to lat_end
LatLoop(lon, lat, lat_end, g) ==
    IF LoopContinues(lat, lat_end)
    THEN <<Rectangle(lon, lat, lon + g, lat + g)>> \o LatLoop(lon, lat + g, lat_end, g)
    ELSE <<>>

RECURSIVE LonLoop(_, _, _, _)
\* the outer while loop, for a positive step g
LonLoop(lon, lon_end, b, g) ==
    IF LoopContinues(lon, lon_end)
    THEN LatLoop(lon, b.lat_start, b.lat_end, g) \o LonLoop(lon + g, lon_end, b, g)
    ELSE <<>>

\* the list polys of _create_grid
GridPolys(b, g) == LonLoop(b.lon_start, b.lon_end, b, g)

\* ee.Feature(p.intersection(ee_feature)).set({"area": ...}): the area in km2
Intersection(p, feat) ==
    LET geom == Squares(p) \cap feat.geom
    IN  [geom |-> geom, props |-> [k \in {"area"} |-> Cardinality(geom)]]

\* the list intersected_feats: one feature for every rectangle of polys
IntersectedFeats(polys, feat) ==
    [i \in 1 .. Len(polys) |-> Intersection(polys[i], feat)]

\* MetricBase._create_grid(ee_feature, grid_size_degrees), for a positive size
_create_grid(feat, g) ==
    LET b == Bounds(feat.geom)
    IN  IF GridLargerThanFeature(g, b) THEN <<feat>>
        ELSE IntersectedFeats(GridPolys(b, g), feat)

\* ------------------------------------------------------------- preparation
\* rows of a GeoDataFrame: a Polygon is one part, a MultiPolygon iterates
\* over its parts
Polygon(shape) == [kind |-> "Polygon", parts |-> <<shape>>]
MultiPolygon(shapes) == [kind |-> "MultiPolygon", parts |-> shapes]

\* the rows a caller's GeoDataFrame is drawn from
Rows ==
    { Polygon(Squares(Rectangle(0, 0, 3, 1)) \cup Squares(Rectangle(0, 1, 1, 3))),
      MultiPolygon(<< Squares(Rectangle(0, 0, 1, 1)),
                      Squares(Rectangle(1, 1, 3, 2)) >>) }

\* a variant that keeps only the first polygon of every row
PolygonsFirstPart(gdf) == [i \in 1 .. Len(gdf) |-> gdf[i].parts[1]]

\* the rows of new_gdf: one per polygon of every row, in order
Polygons(gdf) == Flatten([i \in 1 .. Len(gdf) |-> gdf[i].parts])

\* polys_gdf["area_km2"]: the equal-area area of a polygon
area_km2_of(shape) == Cardinality(shape)

\* a variant that grids a polygon whose area is the threshold itself
IsGriddedAtThreshold(me, shape) == me.grid /\ area_km2_of(shape) >= me.area_threshold

\* whether the grid loop of _breakdown_shape grids a polygon
IsGridded(me, shape) == me.grid /\ area_km2_of(shape) > me.area_threshold

\* MetricBase._breakdown_shape(gdf)
_breakdown_shape(me, gdf) ==
    LET polys == Polygons(gdf)
    IN  Flatten([i \in 1 .. Len(polys) |->
            IF IsGridded(me, polys[i])
            THEN _create_grid(Feature(polys[i]), me.grid_size_degrees)
            ELSE <<Feature(polys[i])>>])

\* the bounds().getInfo() round trips _breakdown_shape makes, one per
\* gridded polygon
BoundsCalls(me, gdf) ==
    Cardinality({i \in 1 .. Len(Polygons(gdf)) : IsGridded(me, Polygons(gdf)[i])})

\* the list chunked_feat_cols of a variant that drops a trailing short chunk
ChunkedFullOnly(feats_list, n) ==
    [j \in 1 .. (Len(feats_list) \div n) |->
        SubSeq(feats_list, (j - 1) * n + 1, j * n)]

\* the list chunked_feat_cols: feats_list[i : i + n] for i in range(0, len, n)
Chunked(feats_list, n) ==
    [j \in 1 .. ((Len(feats_list) + n - 1) \div n) |->
        SubSeq(feats_list, (j - 1) * n + 1, Min(j * n, Len(feats_list)))]

\* ------------------------------------------------ the raster layers (stand-ins)
\* The datasets are external rasters; each is given a fixed value per pixel.
bii_decile(px)  == (px[1] + px[2]) % 10
lossyear(px)    == (px[1] + 2 * px[2]) % 4
hf_1993(px)     == px[1]
hf_2009(px)     == px[1] + px[2]
li(px)          == ((2 * px[1] + 3 * px[2]) % 7) - 1
lulc(px)        == 10 * (((2 * px[1] + 3 * px[2]) % 4) + 1)
evi(k, px)      == (px[1] + k) % 3
pa(px)          == (2 * px[1] + 3 * px[2]) % 5
carbon(px)      == px[1]
total(px)       == px[1] + px[2] + 1
burn_week(px)   == (px[1] + px[2]) % 3

\* TreeLoss.years
years == 18

\* the band names f"{2000 + j}" of TreeLoss
TreeLossYears == {ToString(2000 + j) : j \in 1 .. years}

\* land_cover_defs.json: the taxonomy keys and the class definitions
Taxonomy == {"10", "20", "30"}
class_defs ==
    << [slug |-> "forest", classes |-> {"10", "20"}],
       [slug |-> "water",  classes |-> {"30"}] >>

\* ModisEvi._years: the sorted keys of the configured dataset
_years == <<"2001", "2002", "2003">>

\* ModisFire._generate_isoweek(): the (year, isoweek) buckets between the
\* start and the end date
iso_weeks ==
    << [year |-> 2018, isoweek |-> 1], [year |-> 2018, isoweek |-> 2] >>

iso_date(d) == ToString(d.year) \o "-" \o ToString(d.isoweek)

\* the value the mask of simple_mask_function(im, mask_im, eq=v) leaves:
\* the pixel's value where the mask holds, nothing elsewhere
Masked(cond, value) == IF cond THEN value ELSE 0

\* the keys of a metric's reducers dict, in order, each with its band flag
Reducers(c) ==
    CASE c = "BiodiversityIntactnessMetric" ->
            << [key |-> "bii", band |-> TRUE], [key |-> "bii_area", band |-> TRUE],
               [key |-> "area", band |-> TRUE], [key |-> "area_product", band |-> TRUE] >>
      [] c = "TreeLoss" -> << [key |-> "tree_loss", band |-> FALSE] >>
      [] c = "HumanFootprint" ->
            << [key |-> "human_footprint_area", band |-> FALSE],
               [key |-> "human_footprint_px", band |-> FALSE] >>
      [] c = "HumanInfluenceEnsembleMetric" ->
            << [key |-> "area_no_data", band |-> TRUE], [key |-> "area_0", band |-> TRUE],
               [key |-> "area_1", band |-> TRUE], [key |-> "area_2", band |-> TRUE],
               [key |-> "area_3", band |-> TRUE], [key |-> "area_4", band |-> TRUE],
               [key |-> "area", band |-> TRUE] >>
      [] c = "LandUseLandCover" -> << [key |-> "land_cover_2015", band |-> FALSE] >>
      [] c = "ModisEvi" -> << [key |-> "modis_evi", band |-> FALSE] >>
      [] c = "ModisFire" -> << [key |-> "modis_fire", band |-> FALSE] >>
      [] c = "ProtectedAreas" ->
            << [key |-> "area", band |-> TRUE], [key |-> "area_unprotected", band |-> TRUE],
               [key |-> "area_land", band |-> TRUE], [key |-> "area_marine", band |-> TRUE] >>
      [] c = "TerrestrialCarbon" -> << [key |-> "terrestrial_carbon", band |-> FALSE] >>

\* the band names of the image a reducer key reads
Bands(c, key) ==
    CASE key = "tree_loss"            -> {"area"} \cup TreeLossYears
      [] key = "human_footprint_area" -> {"1993", "2009", "area"}
      [] key = "human_footprint_px"   -> {"1993", "2009"}
      [] key = "land_cover_2015"      -> Taxonomy
      [] key = "modis_evi"            -> Range(_years) \cup {"area"}
      [] key = "modis_fire"           -> {iso_date(iso_weeks[i]) : i \in DOMAIN iso_weeks}
      [] key = "terrestrial_carbon"   -> {"carbon", "total", "area"}
      [] OTHER                        -> {key}

\* the index of a year or week among the bands built at construction
IndexOf(seq, x) == CHOOSE i \in DOMAIN seq : seq[i] = x

\* the value of one band of a reducer's image at a pixel; the pixel area is 1
BandValue(c, key, b, px) ==
    CASE b = "area" -> 1
      [] key = "bii_area"     -> Masked(bii_decile(px) >= 0, 1)
      [] key = "area_product" -> bii_decile(px)
      [] key = "tree_loss" ->
            Masked(\E j \in 1 .. years : b = ToString(2000 + j) /\ lossyear(px) = j, 1)
      [] key \in {"human_footprint_area", "human_footprint_px"} ->
            IF b = "1993" THEN Masked(hf_1993(px) >= 0, hf_1993(px))
                          ELSE Masked(hf_2009(px) >= 0, hf_2009(px))
      [] key = "area_no_data" -> Masked(li(px) = -1, 1)
      [] key = "area_0"       -> Masked(li(px) = 0, 1)
      [] key = "area_1"       -> Masked(li(px) = 1, 1)
      [] key = "area_2"       -> Masked(li(px) = 2, 1)
      [] key = "area_3"       -> Masked(li(px) = 3, 1)
      [] key = "area_4"       -> Masked(li(px) = 4, 1)
      [] key = "land_cover_2015" -> Masked(ToString(lulc(px)) = b, 1)
      [] key = "modis_evi" ->
            LET v == evi(IndexOf(_years, b), px) IN Masked(v >= 0, v)
      [] key = "modis_fire" ->
            Masked(\E i \in DOMAIN iso_weeks :
                      b = iso_date(iso_weeks[i]) /\ burn_week(px) = i, 1)
      [] key = "area_unprotected" -> Masked(pa(px) = 0, 1)
      [] key = "area_land"        -> Masked(pa(px) = 1 \/ pa(px) = 3, 1)
      [] key = "area_marine"      -> Masked(pa(px) = 2, 1)
      [] key = "terrestrial_carbon" ->
            IF b = "carbon" THEN 100 * Masked(carbon(px) >= 0, carbon(px))
                            ELSE 100 * Masked(total(px) >= 0, total(px))

\* ee.Reducer.fixedHistogram(0.0, 1.0, 10) over the bii band: a list of
\* [bin edge, count], the edge in thousandths; None over no pixel at all
Histogram(geom) ==
    IF geom = {} THEN None
    ELSE [i \in 1 .. 10 |->
            <<100 * (i - 1), Cardinality({px \in geom : bii_decile(px) = i - 1})>>]

\* image.reduceRegion(reducer, geometry): every band of the image reduced
reduceRegion(c, key, geom) ==
    IF key = "bii" THEN [b \in {"bii"} |-> Histogram(geom)]
    ELSE [b \in Bands(c, key) |->
            SumSet(geom, [px \in geom |-> BandValue(c, key, b, px)])]

\* what reducer_wrapper sets under one key: the band of that name when the
\* band flag is set, the mapping of all bands otherwise
ReducedValue(c, r, geom) ==
    IF r.band THEN reduceRegion(c, r.key, geom)[r.key]
    ELSE reduceRegion(c, r.key, geom)

\* f["properties"] of one feature after every reducer was mapped over it and
\* its geometry dropped
Properties(c, feat) ==
    Merge(feat.props,
          [k \in {Reducers(c)[i].key : i \in DOMAIN Reducers(c)} |->
              ReducedValue(c, Reducers(c)[IndexOf([i \in DOMAIN Reducers(c) |->
                                                    Reducers(c)[i].key], k)],
                           feat.geom)])

\* the answer of one getInfo() round trip: the properties of every feature
\* of the chunk, in the chunk's order
GetInfo(c, feats) == [i \in 1 .. Len(feats) |-> Properties(c, feats[i])]

\* -------------------------------------------------------------- aggregation
\* a call that returns a value, and one that raises
Returns(v) == [ok |-> TRUE, value |-> v]
Raises(e)  == [ok |-> FALSE, error |-> e]

\* sum([d[key] for d in data])
SumOf(data, key) == SumSeq([i \in 1 .. Len(data) |-> data[i][key]])

\* sum([d[key][b] for d in data])
SumOfBand(data, key, b) == SumSeq([i \in 1 .. Len(data) |-> data[i][key][b]])

\* round(): to the nearest integer, a tie to the even one
Round(q) ==
    LET n == q.num \div q.den
        r == q.num % q.den
    IN  IF 2 * r > q.den \/ (2 * r = q.den /\ n % 2 = 1) THEN n + 1 ELSE n

\* round(el[0], 2) of a bin edge in thousandths
Round2(edge) == ((edge + 5) \div 10) * 10

\* the keys "0.0" .. "0.9" of tmp_hist, in thousandths
HistKeys == {100 * i : i \in 0 .. 9}

\* the count one feature adds to one bin of tmp_hist; a feature whose
\* histogram is None adds nothing
HistCount(d, k) ==
    IF "bii" \notin DOMAIN d \/ d["bii"] = None THEN 0
    ELSE SumSeq([j \in 1 .. Len(d["bii"]) |->
                    IF Round2(d["bii"][j][1]) = k THEN d["bii"][j][2] ELSE 0])

\* a variant whose bins hold the counts of the last feature alone
AggregateBiiLastHistogram(data) ==
    LET area == SumOf(data, "area")
    IN  IF area = 0 THEN Raises("ZeroDivisionError")
        ELSE Returns(
            [ area       |-> area,
              intactness |-> SumOf(data, "bii_area"),
              mean       |-> Rat(SumOf(data, "area_product"), area),
              bii        |-> [k \in HistKeys |-> HistCount(data[Len(data)], k)] ])

\* BiodiversityIntactnessMetric._aggregate(data)
AggregateBii(data) ==
    LET area == SumOf(data, "area")
    IN  IF area = 0 THEN Raises("ZeroDivisionError")
        ELSE Returns(
            [ area       |-> area,
              intactness |-> SumOf(data, "bii_area"),
              mean       |-> Rat(SumOf(data, "area_product"), area),
              bii        |-> [k \in HistKeys |->
                                SumSeq([i \in 1 .. Len(data) |-> HistCount(data[i], k)])] ])

\* a variant that assigns the area of each location instead of adding it
AggregateTreeLossAssign(data) ==
    Returns(
        [ year_data |-> [k \in TreeLossYears |-> SumOfBand(data, "tree_loss", k)],
          area      |-> IF data = <<>> THEN 0
                        ELSE data[Len(data)]["tree_loss"]["area"] ])

\* TreeLoss._aggregate(data)
AggregateTreeLoss(data) ==
    Returns(
        [ year_data |-> [k \in TreeLossYears |-> SumOfBand(data, "tree_loss", k)],
          area      |-> SumOfBand(data, "tree_loss", "area") ])

\* HumanFootprint._aggregate(data)
AggregateHumanFootprint(data) ==
    Returns(
        [ area        |-> SumOfBand(data, "human_footprint_area", "area"),
          sum_area_93 |-> SumOfBand(data, "human_footprint_area", "1993"),
          sum_area_09 |-> SumOfBand(data, "human_footprint_area", "2009"),
          px_93       |-> SumOfBand(data, "human_footprint_px", "1993"),
          px_09       |-> SumOfBand(data, "human_footprint_px", "2009") ])

\* a variant whose residual leaves the no-data area in
AggregateHumanImpactNoDataInMasked(data) ==
    LET area    == SumOf(data, "area")
        no_data == SumOf(data, "area_no_data")
        a0      == SumOf(data, "area_0")
        a1      == SumOf(data, "area_1")
        a2      == SumOf(data, "area_2")
        a3      == SumOf(data, "area_3")
        a4      == SumOf(data, "area_4")
    IN  IF area = 0 THEN Raises("ZeroDivisionError")
        ELSE Returns(
            [ area         |-> area,
              mean         |-> Rat(a0 + a1 + a2 + a3 + a4, area),
              area_no_data |-> no_data,
              area_masked  |-> area - a0 - a1 - a2 - a3 - a4,
              area_0 |-> a0, area_1 |-> a1, area_2 |-> a2, area_3 |-> a3,
              area_4 |-> a4 ])

\* HumanInfluenceEnsembleMetric._aggregate(data)
AggregateHumanImpact(data) ==
    LET area    == SumOf(data, "area")
        no_data == SumOf(data, "area_no_data")
        a0      == SumOf(data, "area_0")
        a1      == SumOf(data, "area_1")
        a2      == SumOf(data, "area_2")
        a3      == SumOf(data, "area_3")
        a4      == SumOf(data, "area_4")
    IN  IF area = 0 THEN Raises("ZeroDivisionError")
        ELSE Returns(
            [ area         |-> area,
              mean         |-> Rat(a0 + a1 + a2 + a3 + a4, area),
              area_no_data |-> no_data,
              area_masked  |-> area - no_data - a0 - a1 - a2 - a3 - a4,
              area_0 |-> a0, area_1 |-> a1, area_2 |-> a2, area_3 |-> a3,
              area_4 |-> a4 ])

\* the area one class definition collects over all features
ClassArea(data, classes) ==
    SumSeq([i \in 1 .. Len(data) |->
        SumSet(classes \cap DOMAIN data[i]["land_cover_2015"],
               [k \in classes \cap DOMAIN data[i]["land_cover_2015"] |->
                   data[i]["land_cover_2015"][k]])])

\* LandUseLandCover._aggregate(data)
AggregateLandCover(data) ==
    Returns(
        [ data_2015 |-> [sl \in {class_defs[i].slug : i \in DOMAIN class_defs} |->
              ClassArea(data,
                  class_defs[CHOOSE i \in DOMAIN class_defs : class_defs[i].slug = sl].classes)],
          area |-> SumSeq([i \in DOMAIN class_defs |->
                              ClassArea(data, class_defs[i].classes)]) ])

\* self._dataset_defs["class_defs"] as the constructor loaded it; the other
\* classes load no definitions
LoadedDefs(c) == IF c = "LandUseLandCover" THEN class_defs ELSE None

\* the class definitions a call of _aggregate leaves behind:
\* LandUseLandCover stores each class's area_sum in its definition
DefsAfter(c, defs, data) ==
    IF c = "LandUseLandCover"
    THEN [i \in DOMAIN defs |->
            [ slug    |-> defs[i].slug,
              classes |-> defs[i].classes,
              area    |-> ClassArea(data, defs[i].classes) ]]
    ELSE defs

\* ModisEvi._aggregate(data), up to the rescaled values and the two means;
\* the standard deviation bands and the regression line are computed from
\* the norm values below and add no further division
AggregateModisEvi(data) ==
    LET area_km2 == SumOfBand(data, "modis_evi", "area")
        value    == [i \in DOMAIN _years |-> SumOfBand(data, "modis_evi", _years[i])]
        norm     == [i \in DOMAIN _years |-> Rat(value[i], area_km2)]
        max_norm == Rat(MaxOf(Range(value)), area_km2)
    IN  IF area_km2 = 0 \/ max_norm.num = 0 THEN Raises("ZeroDivisionError")
        ELSE Returns(
            [ year_data |-> [i \in DOMAIN _years |->
                                [ year    |-> _years[i],
                                  value   |-> value[i],
                                  norm    |-> norm[i],
                                  rescale |-> RatDiv(norm[i], max_norm) ]],
              mean      |-> Rat(SumSeq(value), Len(_years)),
              mean_norm |-> Rat(SumSeq(value), Len(_years) * area_km2),
              area_km2  |-> area_km2 ])

\* ModisFire._aggregate(data): a list, one entry per iso-week
AggregateModisFire(data) ==
    Returns(
        [w \in DOMAIN iso_weeks |->
            [ year    |-> iso_weeks[w].year,
              isoweek |-> iso_weeks[w].isoweek,
              value   |-> SumSeq([i \in 1 .. Len(data) |->
                  IF iso_date(iso_weeks[w]) \in DOMAIN data[i]["modis_fire"]
                  THEN data[i]["modis_fire"][iso_date(iso_weeks[w])] ELSE 0]) ]])

\* ProtectedAreas._aggregate(data)
AggregateProtectedAreas(data) ==
    Returns(
        [ area             |-> SumOf(data, "area"),
          area_unprotected |-> SumOf(data, "area_unprotected"),
          area_land        |-> SumOf(data, "area_land"),
          area_marine      |-> SumOf(data, "area_marine") ])

\* TerrestrialCarbon._aggregate(data)
AggregateTerrestrialCarbon(data) ==
    Returns(
        [ area        |-> SumOfBand(data, "terrestrial_carbon", "area"),
          carbon_soil |-> SumOfBand(data, "terrestrial_carbon", "total"),
          carbon      |-> SumOfBand(data, "terrestrial_carbon", "carbon") ])

\* <Class>._aggregate(data)
_aggregate(c, data) ==
    CASE c = "BiodiversityIntactnessMetric" -> AggregateBii(data)
      [] c = "TreeLoss"                     -> AggregateTreeLoss(data)
      [] c = "HumanFootprint"               -> AggregateHumanFootprint(data)
      [] c = "HumanInfluenceEnsembleMetric" -> AggregateHumanImpact(data)
      [] c = "LandUseLandCover"             -> AggregateLandCover(data)
      [] c = "ModisEvi"                     -> AggregateModisEvi(data)
      [] c = "ModisFire"                    -> AggregateModisFire(data)
      [] c = "ProtectedAreas"               -> AggregateProtectedAreas(data)
      [] c = "TerrestrialCarbon"            -> AggregateTerrestrialCarbon(data)

\* ---------------------------------------------------------------- packaging
\* the truth value of raw_data in "if not raw_data": a dict with keys is
\* true; the list ModisFire aggregates to is true unless it is empty
Truthy(c, raw_data) == IF c = "ModisFire" THEN Len(raw_data) > 0 ELSE TRUE

\* the Metric tuple each _package_metric builds once raw_data passed the test
Record(c, raw) ==
    CASE c = "BiodiversityIntactnessMetric" ->
            Returns([ area_km2 |-> raw.area,
                      int_area |-> raw.intactness,
                      int_perc |-> Round(Rat(100 * raw.mean.num, raw.mean.den)),
                      percentiles |-> raw.bii ])
      [] c = "TreeLoss" ->
            Returns([area_km2 |-> raw.area, year_data |-> raw.year_data])
      [] c = "HumanFootprint" ->
            IF raw.area = 0 THEN Raises("ZeroDivisionError")
            ELSE Returns([ area_km2 |-> raw.area,
                           mean_09  |-> Rat(raw.sum_area_09, raw.area),
                           mean_93  |-> Rat(raw.sum_area_93, raw.area),
                           delta    |-> Rat(raw.sum_area_09 - raw.sum_area_93, raw.area),
                           sum_09   |-> Rat(raw.sum_area_09 * raw.px_09, raw.area),
                           sum_93   |-> Rat(raw.sum_area_93 * raw.px_93, raw.area) ])
      [] c = "HumanInfluenceEnsembleMetric" ->
            IF raw.area = 0 THEN Raises("ZeroDivisionError")
            ELSE Returns([ area_km2     |-> raw.area,
                           area_0 |-> raw.area_0, area_1 |-> raw.area_1,
                           area_2 |-> raw.area_2, area_3 |-> raw.area_3,
                           area_4 |-> raw.area_4,
                           area_no_data |-> raw.area_no_data,
                           area_masked  |-> raw.area_masked,
                           perc_0 |-> Rat(100 * raw.area_0, raw.area),
                           perc_1 |-> Rat(100 * raw.area_1, raw.area),
                           perc_2 |-> Rat(100 * raw.area_2, raw.area),
                           perc_3 |-> Rat(100 * raw.area_3, raw.area),
                           perc_4 |-> Rat(100 * raw.area_4, raw.area),
                           perc_no_data |-> Rat(100 * raw.area_no_data, raw.area),
                           perc_masked  |-> Rat(100 * raw.area_masked, raw.area) ])
      [] c = "LandUseLandCover" ->
            Returns([area_km2 |-> raw.area, data_2015 |-> raw.data_2015])
      [] c = "ModisEvi" ->
            Returns([ year_data |-> raw.year_data, mean |-> raw.mean,
                      mean_norm |-> raw.mean_norm, area_km2 |-> raw.area_km2 ])
      [] c = "ModisFire" -> Returns([year_isoweek |-> raw])
      [] c = "ProtectedAreas" ->
            IF raw.area = 0 THEN Raises("ZeroDivisionError")
            ELSE Returns([ area_km2             |-> raw.area,
                           marine_area_km2      |-> raw.area_marine,
                           terrestrial_area_km2 |-> raw.area_land,
                           unprotected_area_km2 |-> raw.area_unprotected,
                           marine_perc      |-> Rat(100 * raw.area_marine, raw.area),
                           terrestrial_perc |-> Rat(100 * raw.area_land, raw.area),
                           unprotected_perc |-> Rat(100 * raw.area_unprotected, raw.area) ])
      [] c = "TerrestrialCarbon" ->
            IF raw.area = 0 THEN Raises("ZeroDivisionError")
            ELSE Returns([ area_km2            |-> raw.area,
                           carbon_soil_total_t |-> raw.carbon_soil,
                           carbon_total_t      |-> raw.carbon,
                           soil_total_t        |-> raw.carbon_soil - raw.carbon,
                           carbon_density      |-> Rat(raw.carbon_soil, raw.area),
                           soil_density        |-> Rat(raw.carbon, raw.area),
                           total_density       |-> Rat(raw.carbon_soil - raw.carbon, raw.area) ])

\* <Class>._package_metric(raw_data)
_package_metric(c, raw_data) ==
    IF ~ Truthy(c, raw_data) THEN Raises("MetricPackageException")
    ELSE Record(c, raw_data)

\* ------------------------------------------------------------------- state
VARIABLES
    cls,           \* the metric class constructed
    kwargs,        \* the keyword arguments handed to its constructor
    me,            \* the attributes of the instance (self)
    gdf,           \* measure's argument gdf: the rows of the GeoDataFrame
    area_km2,      \* measure's argument area_km2
    pc,            \* where the measure call stands
    log,           \* the steps of the call that have run, in order
    feats,         \* the list _breakdown_shape returned
    chunks,        \* chunked_feat_cols of _intersect
    ci,            \* the chunk the loop of _intersect is at
    data,          \* the list data of _intersect
    requests,      \* the chunks asked of the remote service, in order
    sent,          \* the parameters of the reduceRegion of each request
    remote_calls,  \* round trips to the remote service so far
    raw_data,      \* what _aggregate returned
    outcome,       \* how the call ended: "returned" or the exception's name
    record,        \* the Metric tuple measure returned
    dataset_defs,  \* class_defs of the instance's _dataset_defs (land cover)
    calls,         \* the concurrent measure calls on the instance
    dates,         \* the weeks _generate_isoweek returned to ModisFire.__init__
    images,        \* the dict images of ModisFire.__init__: the days each mask keeps
    config,        \* Config._config: the document yaml.safe_load returned
    property_path, \* get_property's argument property_path, split at the dots
    c_default,     \* get_property's argument default
    c_pc,          \* where the get_property call stands
    prop,          \* how get_property ended: the value returned or the exception
    m_kwargs,      \* the keyword arguments of a simple_mask_function call
    m_pc,          \* where that call stands
    m_mask,        \* the mask it applied: the mask_im values kept, or the exception
    g_pc,          \* where the _create_grid call stands
    g_feat,        \* its argument ee_feature
    g_size,        \* its argument grid_size_degrees
    g_polys,       \* its list polys
    g_out,         \* the list it returned
    g_intersections, \* the intersection() calls it made
    g_lon,         \* its variable lon
    g_lat          \* its variable lat

mvars == << cls, kwargs, me, gdf, area_km2, pc, log, feats, chunks, ci, data,
            requests, sent, remote_calls, raw_data, outcome, record,
            dataset_defs >>
gvars == << g_pc, g_feat, g_size, g_polys, g_out, g_intersections, g_lon, g_lat >>
fvars == << dates, images >>
\* the state of the components a measure call leaves alone
cfvars == << config, property_path, c_default, c_pc, prop >>
mkvars == << m_kwargs, m_pc, m_mask >>
ovars == << fvars, cfvars, mkvars >>
vars  == << mvars, gvars, calls, ovars >>

\* no ModisFire is under construction
IdleFire == dates = <<>> /\ images = <<>>
\* no get_property call is under way
IdleConfig ==
    /\ config = <<>>
    /\ property_path = <<>>
    /\ c_default = <<>>
    /\ c_pc = "idle"
    /\ prop = <<>>
\* no simple_mask_function call is under way
IdleMask ==
    /\ m_kwargs = <<>>
    /\ m_pc = "idle"
    /\ m_mask = <<>>
IdleOthers == IdleFire /\ IdleConfig /\ IdleMask

\* ------------------------------------------------------------------ inputs
\* the values a caller passes for each recognised option
OptionValues(name) ==
    CASE name = "use_exceeds_limit" -> {TRUE}
      [] name = "scale"             -> {1000}
      [] name = "chunk_size"        -> 1 .. MaxChunk
      [] name = "grid"              -> {TRUE}
      [] name = "area_threshold"    -> {2}
      [] name = "grid_size_degrees" -> {2}
      [] name = "simplify"          -> {TRUE}
      [] name = "best_effort"       -> {TRUE, FALSE}
      [] name = "max_pixels"        -> {Dec(1, 9)}

OptionNames ==
    { "use_exceeds_limit", "scale", "chunk_size", "grid", "area_threshold",
      "grid_size_degrees" }

RECURSIVE KwargsOver(_)
\* every choice of passing or not passing each option of a set
KwargsOver(names) ==
    IF names = {} THEN {<<>>}
    ELSE LET n    == CHOOSE x \in names : TRUE
             rest == KwargsOver(names \ {n})
         IN  rest \cup {Merge(r, [k \in {n} |-> v]) : r \in rest, v \in OptionValues(n)}

\* the grid options a caller passes: none, grid alone (with the default
\* threshold and size), or grid with a threshold and a size of its own
GridNames == {"grid", "area_threshold", "grid_size_degrees"}

GridKwargs ==
    {kw \in KwargsOver(GridNames) : DOMAIN kw \in {{}, {"grid"}, GridNames}}

\* the keyword arguments a caller constructs a metric with
Kwargs ==
    {Merge(kw, gkw) : kw \in KwargsOver(OptionNames \ GridNames), gkw \in GridKwargs}

\* the known areas a caller passes: at and around the gate's thresholds, and
\* the 1e18 of the tests
Areas == {Dec(6875, 2), Dec(27, 5), Dec(28, 5), Dec(1, 18)}

RECURSIVE SeqsUpTo(_, _)
\* the sequences over S of length at most n
SeqsUpTo(S, n) ==
    IF n = 0 THEN {<<>>}
    ELSE SeqsUpTo(S, n - 1) \cup
         {Append(q, x) : q \in {r \in SeqsUpTo(S, n - 1) : Len(r) = n - 1}, x \in S}

\* the rectangles of the lattice, and each with its upper right part cut out
GridShapes ==
    LET rects == { Rectangle(x1, y1, x2, y2) :
                     x1 \in 0 .. Extent - 1, y1 \in 0 .. Extent - 1,
                     x2 \in 1 .. Extent, y2 \in 1 .. Extent }
        ok    == {r \in rects : r.x1 < r.x2 /\ r.y1 < r.y2}
    IN  {Squares(r) : r \in ok} \cup
        {Squares(r) \ Squares(Rectangle(r.x1 + 1, r.y1 + 1, r.x2, r.y2)) : r \in ok}

IdleGrid ==
    /\ g_pc = "idle"
    /\ g_feat = None
    /\ g_size = 0
    /\ g_polys = <<>>
    /\ g_out = <<>>
    /\ g_intersections = 0
    /\ g_lon = 0
    /\ g_lat = 0

\* a metric constructed, and measure(gdf, area_km2) called on it
Init ==
    /\ cls \in Classes
    /\ kwargs \in Kwargs
    /\ me = Construct(cls, kwargs)
    /\ gdf \in SeqsUpTo(Rows, MaxEntries)
    /\ area_km2 \in Areas \cup {None}
    /\ pc = "measure"
    /\ log = <<>>
    /\ feats = <<>>
    /\ chunks = <<>>
    /\ ci = 0
    /\ data = <<>>
    /\ requests = <<>>
    /\ sent = <<>>
    /\ remote_calls = 0
    /\ raw_data = None
    /\ outcome = "running"
    /\ record = None
    /\ dataset_defs = LoadedDefs(cls)
    /\ calls = <<>>
    /\ IdleOthers
    /\ IdleGrid

\* the call ends with an exception
Raise(e) ==
    /\ outcome' = e
    /\ pc' = "raised"

\* ----------------------------------------------------------------- actions
\* the scale, maxPixels and bestEffort map_function hands to reduceRegion
ReduceParams(m) ==
    [scale |-> m._scale, maxPixels |-> m.max_pixels, bestEffort |-> m._best_effort]

\* a variant of measure that prepares the geometry before it runs the gate
MeasureGateAfterBreakdown ==
    /\ pc = "measure"
    /\ log' = log \o <<"breakdown", "gate">>
    /\ feats' = _breakdown_shape(me, gdf)
    /\ remote_calls' = remote_calls + BoundsCalls(me, gdf)
    /\ IF _exceeds_limit(cls, me, area_km2)
       THEN Raise("MetricComputeException")
       ELSE pc' = "intersect" /\ UNCHANGED outcome
    /\ UNCHANGED << cls, kwargs, me, dataset_defs, calls, ovars, gdf, area_km2, chunks, ci, data,
                    requests, sent, raw_data, record, gvars >>

\* MetricBase.measure: the gate every measure runs first
Measure ==
    /\ pc = "measure"
    /\ log' = Append(log, "gate")
    /\ IF _exceeds_limit(cls, me, area_km2)
       THEN Raise("MetricComputeException")
       ELSE pc' = "breakdown" /\ UNCHANGED outcome
    /\ UNCHANGED << cls, kwargs, me, dataset_defs, calls, ovars, gdf, area_km2, feats, chunks, ci, data,
                    requests, sent, remote_calls, raw_data, record, gvars >>

\* feats = self._breakdown_shape(gdf); over no row at all the reprojection
\* has no geometry column to work on, and the library in use decides
\* whether that yields an empty list or an error
BreakdownShape ==
    /\ pc = "breakdown"
    /\ log' = Append(log, "breakdown")
    /\ \/ /\ feats' = _breakdown_shape(me, gdf)
          /\ remote_calls' = remote_calls + BoundsCalls(me, gdf)
          /\ pc' = "intersect"
          /\ UNCHANGED outcome
       \/ /\ gdf = <<>>
          /\ Raise("AttributeError")
          /\ UNCHANGED << feats, remote_calls >>
    /\ UNCHANGED << cls, kwargs, me, dataset_defs, calls, ovars, gdf, area_km2, chunks, ci, data, requests, sent,
                    raw_data, record, gvars >>

\* _intersect, up to the loop: the chunks are formed
Intersect ==
    /\ pc = "intersect"
    /\ log' = Append(log, "intersect")
    /\ chunks' = Chunked(feats, me.chunk_size)
    /\ data' = <<>>
    /\ ci' = 1
    /\ pc' = IF chunks' = <<>> THEN "aggregate" ELSE "chunk"
    /\ UNCHANGED << cls, kwargs, me, dataset_defs, calls, ovars, gdf, area_km2, feats, requests, sent,
                    remote_calls, raw_data, outcome, record, gvars >>

\* a variant of the loop that catches the service's error and goes on to
\* the next chunk
IntersectChunkSkipFailed ==
    /\ pc = "chunk"
    /\ requests' = Append(requests, ci)
    /\ sent' = Append(sent, ReduceParams(me))
    /\ remote_calls' = remote_calls + 1
    /\ \/ data' = data \o GetInfo(cls, chunks[ci])
       \/ data' = data
    /\ ci' = ci + 1
    /\ pc' = IF ci' > Len(chunks) THEN "aggregate" ELSE "chunk"
    /\ UNCHANGED << cls, kwargs, me, dataset_defs, calls, ovars, gdf, area_km2, log, feats, chunks,
                    raw_data, outcome, record, gvars >>

\* one turn of the loop of _intersect: the getInfo() of chunk ci answers, or
\* fails with the service's error
IntersectChunk ==
    /\ pc = "chunk"
    /\ requests' = Append(requests, ci)
    /\ sent' = Append(sent, ReduceParams(me))
    /\ remote_calls' = remote_calls + 1
    /\ \/ /\ data' = data \o GetInfo(cls, chunks[ci])
          /\ ci' = ci + 1
          /\ pc' = IF ci' > Len(chunks) THEN "aggregate" ELSE "chunk"
          /\ UNCHANGED outcome
       \/ /\ Raise("EEException")
          /\ UNCHANGED << data, ci >>
    /\ UNCHANGED << cls, kwargs, me, dataset_defs, calls, ovars, gdf, area_km2, log, feats, chunks,
                    raw_data, record, gvars >>

\* raw_data = self._aggregate(ee_data); ProtectedAreas.measure logs
\* ee_data[0] first
Aggregate ==
    /\ pc = "aggregate"
    /\ log' = Append(log, "aggregate")
    /\ dataset_defs' = DefsAfter(cls, dataset_defs, data)
    /\ IF cls = "ProtectedAreas" /\ data = <<>>
       THEN Raise("IndexError") /\ UNCHANGED raw_data
       ELSE LET r == _aggregate(cls, data)
            IN  IF r.ok
                THEN raw_data' = r.value /\ pc' = "package" /\ UNCHANGED outcome
                ELSE Raise(r.error) /\ UNCHANGED raw_data
    /\ UNCHANGED << cls, kwargs, me, calls, ovars, gdf, area_km2, feats, chunks, ci, data,
                    requests, sent, remote_calls, record, gvars >>

\* return self._package_metric(raw_data)
PackageMetric ==
    /\ pc = "package"
    /\ log' = Append(log, "package")
    /\ LET r == _package_metric(cls, raw_data)
       IN  IF r.ok
           THEN record' = r.value /\ outcome' = "returned" /\ pc' = "returned"
           ELSE Raise(r.error) /\ UNCHANGED record
    /\ UNCHANGED << cls, kwargs, me, dataset_defs, calls, ovars, gdf, area_km2, feats, chunks, ci, data,
                    requests, sent, remote_calls, raw_data, gvars >>

Next ==
    \/ Measure
    \/ BreakdownShape
    \/ Intersect
    \/ IntersectChunk
    \/ Aggregate
    \/ PackageMetric

Spec == Init /\ [][Next]_vars

\* --------------------------------------------- every construction option
\* the options of MetricBase.__init__ a caller passes to a metric
ConstructionOptions ==
    OptionNames \cup {"simplify", "best_effort", "max_pixels"}

\* a metric constructed with any choice of the options, and measure called
\* on a one-row GeoDataFrame with no known area
InitOptions ==
    /\ cls \in Classes
    /\ kwargs \in KwargsOver(ConstructionOptions)
    /\ me = Construct(cls, kwargs)
    /\ gdf \in {<<r>> : r \in Rows}
    /\ area_km2 = None
    /\ pc = "measure"
    /\ log = <<>>
    /\ feats = <<>>
    /\ chunks = <<>>
    /\ ci = 0
    /\ data = <<>>
    /\ requests = <<>>
    /\ sent = <<>>
    /\ remote_calls = 0
    /\ raw_data = None
    /\ outcome = "running"
    /\ record = None
    /\ dataset_defs = LoadedDefs(cls)
    /\ calls = <<>>
    /\ IdleOthers
    /\ IdleGrid

SpecOptions == InitOptions /\ [][Next]_vars

\* ---------------------------------------- concurrent calls on one instance
\* the threads that call measure on the same instance
CallIds == {"a", "b"}

\* the state of the sequential call, left alone by the concurrent calls
svars == << cls, kwargs, me, gdf, area_km2, pc, log, feats, chunks, ci, data,
            requests, sent, remote_calls, raw_data, outcome, record,
            ovars >>

\* a call of measure(gdf) that has not started: its locals
NewCall(g) ==
    [ pc |-> "measure", gdf |-> g, data |-> <<>>, k |-> 1, total_data_area |-> 0,
      raw_data |-> None, outcome |-> "running", record |-> None ]

\* one instance of a metric and two calls of measure on it, each with a
\* one-row GeoDataFrame of its own
InitConcurrent ==
    /\ cls \in Classes
    /\ kwargs \in KwargsOver({"chunk_size"})
    /\ me = Construct(cls, kwargs)
    /\ gdf = <<>>
    /\ area_km2 = None
    /\ pc = "idle"
    /\ log = <<>>
    /\ feats = <<>>
    /\ chunks = <<>>
    /\ ci = 0
    /\ data = <<>>
    /\ requests = <<>>
    /\ sent = <<>>
    /\ remote_calls = 0
    /\ raw_data = None
    /\ outcome = "running"
    /\ record = None
    /\ dataset_defs = LoadedDefs(cls)
    /\ IdleOthers
    /\ IdleGrid
    /\ \E ra, rb \in Rows :
          /\ ra # rb
          /\ calls = [t \in CallIds |-> NewCall(IF t = "a" THEN <<ra>> ELSE <<rb>>)]

\* the gate, _breakdown_shape and _intersect of one call: they work on the
\* call's own lists, and the remote client is reentrant
CallReduce(t) ==
    /\ calls[t].pc = "measure"
    /\ calls' = [calls EXCEPT
                   ![t].data = Flatten(
                       [j \in 1 .. Len(Chunked(_breakdown_shape(me, calls[t].gdf), me.chunk_size)) |->
                           GetInfo(cls, Chunked(_breakdown_shape(me, calls[t].gdf), me.chunk_size)[j])]),
                   ![t].pc = "aggregate"]
    /\ UNCHANGED << svars, dataset_defs, gvars >>

\* one turn of the loop over class_defs of LandUseLandCover._aggregate: the
\* class's area_sum is added to the call's total and stored in the class
\* definition of the instance
CallAggregateStep(t) ==
    /\ calls[t].pc = "aggregate"
    /\ cls = "LandUseLandCover"
    /\ calls[t].k <= Len(dataset_defs)
    /\ LET k        == calls[t].k
           area_sum == ClassArea(calls[t].data, dataset_defs[k].classes)
       IN  /\ dataset_defs' =
                 [dataset_defs EXCEPT ![k] =
                     [ slug    |-> dataset_defs[k].slug,
                       classes |-> dataset_defs[k].classes,
                       area    |-> area_sum ]]
           /\ calls' = [calls EXCEPT
                          ![t].total_data_area = calls[t].total_data_area + area_sum,
                          ![t].k = k + 1]
    /\ UNCHANGED << svars, gvars >>

\* the return of _aggregate: LandUseLandCover reads the areas back from the
\* class definitions of the instance; the other classes fold the call's own
\* list in local variables
CallAggregateReturn(t) ==
    /\ calls[t].pc = "aggregate"
    /\ IF cls = "LandUseLandCover"
       THEN /\ calls[t].k > Len(dataset_defs)
            /\ calls' = [calls EXCEPT
                  ![t].raw_data =
                      [ data_2015 |->
                          [sl \in {dataset_defs[i].slug : i \in DOMAIN dataset_defs} |->
                              dataset_defs[CHOOSE i \in DOMAIN dataset_defs :
                                              dataset_defs[i].slug = sl].area],
                        area |-> calls[t].total_data_area ],
                  ![t].pc = "package"]
       ELSE LET r == _aggregate(cls, calls[t].data)
            IN  calls' = [calls EXCEPT
                  ![t].raw_data = IF r.ok THEN r.value ELSE None,
                  ![t].outcome  = IF r.ok THEN "running" ELSE r.error,
                  ![t].pc       = IF r.ok THEN "package" ELSE "raised"]
    /\ UNCHANGED << svars, dataset_defs, gvars >>

\* return self._package_metric(raw_data) of one call
CallPackage(t) ==
    /\ calls[t].pc = "package"
    /\ LET r == _package_metric(cls, calls[t].raw_data)
       IN  calls' = [calls EXCEPT
             ![t].record  = IF r.ok THEN r.value ELSE None,
             ![t].outcome = IF r.ok THEN "returned" ELSE r.error,
             ![t].pc      = IF r.ok THEN "returned" ELSE "raised"]
    /\ UNCHANGED << svars, dataset_defs, gvars >>

NextConcurrent ==
    \E t \in CallIds :
        \/ CallReduce(t)
        \/ CallAggregateStep(t)
        \/ CallAggregateReturn(t)
        \/ CallPackage(t)

SpecConcurrent == InitConcurrent /\ [][NextConcurrent]_vars

\* ------------------------------------------ the week masks of the fire metric
\* strftime("%j"): the days of a year
DaysInYear == 366
DayOfYear == 1 .. DaysInYear

\* the weeks _generate_isoweek can hand to the loop: a start and an end day
\* of the year each, under the year and the ISO week of the bucket
Weeks ==
    { [start |-> s, end |-> e, year |-> iso_weeks[1].year, isoweek |-> iso_weeks[1].isoweek] :
        s \in DayOfYear, e \in DayOfYear }

\* the mask of one week: the BurnDate values it keeps, of those filter_fires
\* leaves.  start_day = int(d["start"]), end_day = int(d["end"]) - 1
BurnMask(d) ==
    LET start_day == d.start
        end_day   == d.end - 1
    IN  IF start_day > end_day
        THEN {b \in DayOfYear : b >= start_day \/ b < end_day}
        ELSE {b \in DayOfYear : b >= start_day /\ b < end_day}

\* ------------------------------------------------- the calendar of the weeks
\* calendar.isleap(year)
IsLeap(y) == (y % 4 = 0 /\ y % 100 # 0) \/ y % 400 = 0
YearLength(y) == IF IsLeap(y) THEN 366 ELSE 365

RECURSIVE DaysBefore(_)
\* the days from the first of January 2000 to that of year y
DaysBefore(y) == IF y <= 2000 THEN 0 ELSE DaysBefore(y - 1) + YearLength(y - 1)

\* date.toordinal(), counted from the first of January 2000
toordinal(date) ==
    LET lengths == <<31, IF IsLeap(date.year) THEN 29 ELSE 28,
                     31, 30, 31, 30, 31, 31, 30, 31, 30, 31>>
    IN  DaysBefore(date.year)
            + SumSeq([m \in 1 .. (date.month - 1) |-> lengths[m]])
            + date.day - 1

\* date.year and strftime("%j") of the date at an ordinal
RECURSIVE YearFrom(_, _)
YearFrom(y, ord) == IF ord < DaysBefore(y) + YearLength(y) THEN y ELSE YearFrom(y + 1, ord)
YearOf(ord) == YearFrom(2000, ord)
YdayOf(ord) == ord - DaysBefore(YearOf(ord)) + 1

\* date.weekday(): Monday is 0; the first of January 2000 was a Saturday
weekday(ord) == (ord + 5) % 7

\* date.isocalendar(): the year and the week of the Thursday of the date's
\* week
isocalendar(ord) ==
    LET thursday == ord - weekday(ord) + 3
    IN  [year |-> YearOf(thursday), week |-> ((YdayOf(thursday) - 1) \div 7) + 1]

\* datetime.strptime(f"{year}-{week}-{w}", "%Y-%W-%w"): the weeks of %W
\* start on Monday and week 0 holds the days before the first Monday; %w
\* counts from Sunday = 0.  The result is a date, as an ordinal
strptime_W(year, week, w) ==
    LET day_of_week   == IF w = 0 THEN 6 ELSE w - 1
        first_weekday == weekday(DaysBefore(year))
        week_0_length == (7 - first_weekday) % 7
        julian        == IF week = 0
                         THEN 1 + day_of_week - first_weekday
                         ELSE 1 + week_0_length + 7 * (week - 1) + day_of_week
    IN  DaysBefore(year) + julian - 1

\* one turn of the loop of _generate_isoweek, for the week that starts at
\* the ordinal start
GeneratedWeek(start) ==
    LET tmp_end == start + 7
        s       == isocalendar(start)
        e       == isocalendar(tmp_end)
    IN  [ start   |-> YdayOf(strptime_W(s.year, s.week, 6)),
          end     |-> YdayOf(strptime_W(e.year, e.week, 0)),
          year    |-> s.year,
          isoweek |-> s.week ]

\* ModisFire._generate_isoweek(), for the dates of the instance: a week for
\* every start, start + 7, ... that lies more than a week before end
_generate_isoweek(start_date, end_date) ==
    LET start == toordinal(start_date)
        end   == toordinal(end_date)
        n     == IF start < end - 7 THEN ((end - 7 - start) + 6) \div 7 ELSE 0
    IN  [k \in 1 .. n |-> GeneratedWeek(start + 7 * (k - 1))]

\* the dates of the images of the collection, first and last: the defaults
\* of start_date and end_date
im_date_list ==
    << [year |-> 2018, month |-> 1, day |-> 1], [year |-> 2018, month |-> 1, day |-> 16] >>

\* self.start_date and self.end_date
start_date(kw) == Get(kw, "start_date", im_date_list[1])
end_date(kw) == Get(kw, "end_date", im_date_list[Len(im_date_list)])

\* a ModisFire under construction: _generate_isoweek has returned
InitFire ==
    /\ cls = "ModisFire"
    /\ kwargs = <<>>
    /\ me = Construct(cls, kwargs)
    /\ gdf = <<>>
    /\ area_km2 = None
    /\ pc = "idle"
    /\ log = <<>>
    /\ feats = <<>>
    /\ chunks = <<>>
    /\ ci = 0
    /\ data = <<>>
    /\ requests = <<>>
    /\ sent = <<>>
    /\ remote_calls = 0
    /\ raw_data = None
    /\ outcome = "running"
    /\ record = None
    /\ dataset_defs = LoadedDefs(cls)
    /\ calls = <<>>
    /\ IdleGrid
    /\ dates \in {<<d>> : d \in Weeks}
    /\ images = <<>>
    /\ IdleConfig
    /\ IdleMask

\* the loops of ModisFire.__init__ over the calendar years from that of the
\* start date to that of the end date and, in each, over the weeks of that
\* year: images[f"{year}-{week}"] is the area image under the week's mask,
\* taken of the year's burn dates; a later week of the same key replaces an
\* earlier one
BuildImages ==
    /\ cls = "ModisFire"
    /\ dates # <<>>
    /\ images = <<>>
    /\ LET start_year == start_date(kwargs).year
           end_year   == end_date(kwargs).year
           filtered   == {i \in DOMAIN dates : dates[i].year \in start_year .. end_year}
       IN  images' =
              [key \in {iso_date(dates[i]) : i \in filtered} |->
                  BurnMask(dates[CHOOSE i \in filtered :
                                    /\ iso_date(dates[i]) = key
                                    /\ \A j \in filtered :
                                          iso_date(dates[j]) = key => j <= i])]
    /\ UNCHANGED << mvars, gvars, calls, dates, cfvars, mkvars >>

NextFire == BuildImages

SpecFire == InitFire /\ [][NextFire]_vars

\* the years the start dates a caller passes are drawn from
FirstStartYear == 2001
LastStartYear == 2005

\* ModisFire(start_date=..., end_date=...) under construction, the start
\* date a day of a January or a December, the end date the first of a
\* February within fourteen months of it: _generate_isoweek has returned
InitFireWeeks ==
    /\ cls = "ModisFire"
    /\ \E s \in { [year |-> y, month |-> m, day |-> d] :
                      y \in FirstStartYear .. LastStartYear, m \in {1, 12}, d \in 1 .. 31 },
          e \in { [year |-> y, month |-> 2, day |-> 1] :
                      y \in FirstStartYear .. (LastStartYear + 1) } :
          /\ toordinal(e) - toordinal(s) \in 8 .. 430
          /\ kwargs = [start_date |-> s, end_date |-> e]
    /\ me = Construct(cls, kwargs)
    /\ gdf = <<>>
    /\ area_km2 = None
    /\ pc = "idle"
    /\ log = <<>>
    /\ feats = <<>>
    /\ chunks = <<>>
    /\ ci = 0
    /\ data = <<>>
    /\ requests = <<>>
    /\ sent = <<>>
    /\ remote_calls = 0
    /\ raw_data = None
    /\ outcome = "running"
    /\ record = None
    /\ dataset_defs = LoadedDefs(cls)
    /\ calls = <<>>
    /\ IdleGrid
    /\ IdleConfig
    /\ IdleMask
    /\ dates = _generate_isoweek(start_date(kwargs), end_date(kwargs))
    /\ images = <<>>

SpecFireWeeks == InitFireWeeks /\ [][NextFire]_vars

\* ------------------------------------------------- the grid generator alone
IdleMeasure ==
    /\ cls = "TreeLoss"
    /\ kwargs = <<>>
    /\ me = Construct(cls, kwargs)
    /\ gdf = <<>>
    /\ area_km2 = None
    /\ pc = "idle"
    /\ log = <<>>
    /\ feats = <<>>
    /\ chunks = <<>>
    /\ ci = 0
    /\ data = <<>>
    /\ requests = <<>>
    /\ sent = <<>>
    /\ remote_calls = 0
    /\ raw_data = None
    /\ outcome = "running"
    /\ record = None
    /\ dataset_defs = LoadedDefs(cls)
    /\ calls = <<>>

\* _create_grid(ee_feature, grid_size_degrees) called on a feature
InitGrid ==
    /\ IdleMeasure
    /\ IdleOthers
    /\ g_pc = "call"
    /\ g_feat \in {Feature(sh) : sh \in GridShapes}
    /\ g_size \in 1 .. MaxGridSize
    /\ g_polys = <<>>
    /\ g_out = <<>>
    /\ g_intersections = 0
    /\ g_lon = 0
    /\ g_lat = 0

\* the whole call: the bounds round trip, the test of the grid size, the
\* two loops and the intersections
CreateGrid ==
    /\ g_pc = "call"
    /\ remote_calls' = remote_calls + 1
    /\ LET b == Bounds(g_feat.geom)
       IN  IF GridLargerThanFeature(g_size, b)
           THEN g_polys' = <<>> /\ g_intersections' = 0
           ELSE g_polys' = GridPolys(b, g_size) /\ g_intersections' = Len(g_polys')
    /\ g_out' = _create_grid(g_feat, g_size)
    /\ g_pc' = "done"
    /\ UNCHANGED << cls, kwargs, me, dataset_defs, calls, ovars, gdf, area_km2, pc, log, feats, chunks, ci,
                    data, requests, sent, raw_data, outcome, record, g_feat, g_size,
                    g_lon, g_lat >>

NextGrid == CreateGrid

SpecGrid == InitGrid /\ [][NextGrid]_vars

\* --------------------------------------- the grid generator, step by step
\* how far below zero the grid sizes a caller passes go: the constructor
\* checks none
MaxNegSize == 1

\* the most rectangles the list polys is followed for, and the lowest
\* position lon and lat are followed to: the loop conditions depend on
\* neither beyond that point
MaxPolys == (Extent + 1) * (Extent + 1)
LowestPos == 0 - Extent

\* _create_grid(ee_feature, grid_size_degrees) called on a feature with a
\* grid size of any sign
InitGridLoop ==
    /\ IdleMeasure
    /\ IdleOthers
    /\ g_pc = "call"
    /\ g_feat \in {Feature(sh) : sh \in GridShapes}
    /\ g_size \in (0 - MaxNegSize) .. MaxGridSize
    /\ g_polys = <<>>
    /\ g_out = <<>>
    /\ g_intersections = 0
    /\ g_lon = 0
    /\ g_lat = 0

\* the state of the measure call and of the other components
nvars == << mvars, calls, ovars >>

\* the bounds round trip and the test of the grid size against the box
GridBounds ==
    /\ g_pc = "call"
    /\ remote_calls' = remote_calls + 1
    /\ LET b == Bounds(g_feat.geom)
       IN  IF GridLargerThanFeature(g_size, b)
           THEN /\ g_out' = <<g_feat>>
                /\ g_pc' = "done"
                /\ UNCHANGED g_lon
           ELSE /\ g_lon' = b.lon_start
                /\ g_pc' = "lon"
                /\ UNCHANGED g_out
    /\ UNCHANGED << cls, kwargs, me, dataset_defs, calls, ovars, gdf, area_km2, pc, log, feats, chunks, ci,
                    data, requests, sent, raw_data, outcome, record, g_feat, g_size,
                    g_polys, g_intersections, g_lat >>

\* the test of the outer while loop, and the head of its body: lon moves
\* on by the grid size and lat starts over
GridLonStep ==
    /\ g_pc = "lon"
    /\ LET b == Bounds(g_feat.geom)
       IN  IF LoopContinues(g_lon, b.lon_end)
           THEN /\ g_lon' = IF g_lon + g_size < LowestPos THEN g_lon ELSE g_lon + g_size
                /\ g_lat' = b.lat_start
                /\ g_pc' = "lat"
           ELSE /\ g_pc' = "intersect"
                /\ UNCHANGED << g_lon, g_lat >>
    /\ UNCHANGED << nvars, g_feat, g_size, g_polys, g_out, g_intersections >>

\* the test of the inner while loop, and its body: a rectangle is appended
\* and lat moves on by the grid size
GridLatStep ==
    /\ g_pc = "lat"
    /\ LET b == Bounds(g_feat.geom)
       IN  IF LoopContinues(g_lat, b.lat_end)
           THEN /\ g_polys' =
                      IF Len(g_polys) < MaxPolys
                      THEN Append(g_polys, Rectangle(g_lon - g_size, g_lat,
                                                     g_lon, g_lat + g_size))
                      ELSE g_polys
                /\ g_lat' = IF g_lat + g_size < LowestPos THEN g_lat ELSE g_lat + g_size
                /\ UNCHANGED g_pc
           ELSE /\ g_pc' = "lon"
                /\ UNCHANGED << g_polys, g_lat >>
    /\ UNCHANGED << nvars, g_feat, g_size, g_out, g_intersections, g_lon >>

\* the loop over polys: every rectangle is intersected with the feature
GridIntersect ==
    /\ g_pc = "intersect"
    /\ g_out' = IntersectedFeats(g_polys, g_feat)
    /\ g_intersections' = Len(g_polys)
    /\ g_pc' = "done"
    /\ UNCHANGED << nvars, g_feat, g_size, g_polys, g_lon, g_lat >>

NextGridLoop ==
    \/ GridBounds
    \/ GridLonStep
    \/ GridLatStep
    \/ GridIntersect

\* the call is one thread of control: while it has a next step it takes it
SpecGridLoop == InitGridLoop /\ [][NextGridLoop]_vars /\ WF_vars(NextGridLoop)

\* ------------------------------------------------------ the configuration
\* the depth of the configuration documents and the length of the paths
MaxDepth == 2
MaxPath == 3

\* the keys of the documents and of the paths
Keys == {"metrics", "dataset"}

\* what yaml.safe_load yields: null, a scalar, or a mapping of keys to such
Null == [kind |-> "null"]
Scalar == [kind |-> "str", value |-> "projects/asset"]
Mapping(f) == [kind |-> "dict", items |-> f]

RECURSIVE Nodes(_)
Nodes(depth) ==
    IF depth = 0 THEN {Null, Scalar}
    ELSE {Null, Scalar} \cup
         UNION { {Mapping(f) : f \in [ks -> Nodes(depth - 1)]} : ks \in SUBSET Keys }

\* property_path.split("."), for the paths of one to MaxPath keys
Paths == UNION { [1 .. n -> Keys] : n \in 1 .. MaxPath }

RECURSIVE deepgetattr(_, _, _)
\* functools.reduce(lambda o, key: o.get(key, default), attr.split(sep), obj):
\* only a mapping has a get
deepgetattr(obj, attr, default) ==
    IF attr = <<>> THEN [ok |-> TRUE, value |-> obj]
    ELSE IF obj.kind # "dict" THEN [ok |-> FALSE, error |-> "AttributeError"]
    ELSE deepgetattr(IF Head(attr) \in DOMAIN obj.items
                     THEN obj.items[Head(attr)] ELSE default,
                     Tail(attr), default)

\* Config.get_property(property_path, default)
get_property(cfg, path, default) ==
    LET r == deepgetattr(cfg, path, default)
    IN  IF ~r.ok THEN r
        ELSE IF r.value = Null THEN [ok |-> FALSE, error |-> "ConfigurationException"]
        ELSE r

\* a Config has loaded its document and get_property is called on it
InitConfig ==
    /\ IdleMeasure
    /\ IdleGrid
    /\ IdleFire
    /\ IdleMask
    /\ config \in Nodes(MaxDepth)
    /\ property_path \in Paths
    /\ c_default \in {Null, Scalar}
    /\ c_pc = "call"
    /\ prop = <<>>

\* the whole call of get_property
GetProperty ==
    /\ c_pc = "call"
    /\ prop' = get_property(config, property_path, c_default)
    /\ c_pc' = "done"
    /\ UNCHANGED << mvars, gvars, calls, fvars, mkvars, config, property_path, c_default >>

NextConfig == GetProperty

SpecConfig == InitConfig /\ [][NextConfig]_vars

\* ------------------------------------------------------ the mask builder
\* the largest value of a pixel of mask_im, and the most values an eq_or
\* is given
MaxPixel == 4
MaxOr == 3

PixelValues == 0 .. MaxPixel

\* one keyword argument of simple_mask_function; the list(v) of an eq_or
\* holds distinct values, one to MaxOr of them
MaskKwargs ==
    {<<k, v>> : k \in {"gt", "gte", "lt", "lte", "eq"}, v \in PixelValues}
        \cup {<<"eq_or", l>> :
                 l \in UNION { {f \in [1 .. n -> PixelValues] :
                                   \A i, j \in 1 .. n : f[i] = f[j] => i = j}
                               : n \in 1 .. MaxOr }}
        \cup {<<"range", <<lo, hi>> >> : lo \in PixelValues, hi \in PixelValues}

\* the mask one keyword argument yields: the values of mask_im it keeps
MaskOf(k, v) ==
    CASE k = "gt"    -> [ok |-> TRUE, kept |-> {x \in PixelValues : x > v}]
      [] k = "gte"   -> [ok |-> TRUE, kept |-> {x \in PixelValues : x >= v}]
      [] k = "lt"    -> [ok |-> TRUE, kept |-> {x \in PixelValues : x < v}]
      [] k = "lte"   -> [ok |-> TRUE, kept |-> {x \in PixelValues : x <= v}]
      [] k = "eq"    -> [ok |-> TRUE, kept |-> {x \in PixelValues : x = v}]
      [] k = "eq_or" ->
            IF Len(v) < 2 THEN [ok |-> FALSE, error |-> "IndexError"]
            ELSE [ok |-> TRUE, kept |-> {x \in PixelValues : x = v[1] \/ x = v[2]}]
      [] k = "range" ->
            IF Len(v) < 2 THEN [ok |-> FALSE, error |-> "IndexError"]
            ELSE [ok |-> TRUE, kept |-> {x \in PixelValues : x >= v[1] /\ x < v[2]}]
      [] OTHER       -> None

RECURSIVE MaskLoop(_, _)
\* the loop over kwargs.items(): every recognised argument replaces the mask
MaskLoop(items, mask) ==
    IF items = <<>> THEN mask
    ELSE LET r == MaskOf(Head(items)[1], Head(items)[2])
         IN  IF r = None THEN MaskLoop(Tail(items), mask)
             ELSE IF ~r.ok THEN r
             ELSE MaskLoop(Tail(items), r)

\* simple_mask_function(im, mask_im, **kwargs)
simple_mask_function(items) == MaskLoop(items, None)

\* simple_mask_function is called with one keyword argument
InitMask ==
    /\ IdleMeasure
    /\ IdleGrid
    /\ IdleFire
    /\ IdleConfig
    /\ m_kwargs \in {<<kv>> : kv \in MaskKwargs}
    /\ m_pc = "call"
    /\ m_mask = <<>>

\* the whole call
SimpleMask ==
    /\ m_pc = "call"
    /\ m_mask' = simple_mask_function(m_kwargs)
    /\ m_pc' = "done"
    /\ UNCHANGED << mvars, gvars, calls, fvars, cfvars, m_kwargs >>

NextMask == SimpleMask

SpecMask == InitMask /\ [][NextMask]_vars

\* ------------------------------------------- the aggregation of ModisEvi
\* the largest sum the service returns for a band of a feature
MaxSum == 1

\* _aggregate(data) is called on a ModisEvi with the results of one to
\* MaxEntries features: f["properties"] of a feature holds a sum for the
\* area band and one for the band of every year
InitAggregate ==
    /\ cls = "ModisEvi"
    /\ kwargs = <<>>
    /\ me = Construct(cls, kwargs)
    /\ gdf = <<>>
    /\ area_km2 = None
    /\ pc = "aggregate"
    /\ log = <<>>
    /\ feats = <<>>
    /\ chunks = <<>>
    /\ ci = 0
    /\ data \in SeqsUpTo({ [k \in {"modis_evi"} |-> bands] :
                              bands \in [{"area"} \cup Range(_years) -> 0 .. MaxSum] },
                          MaxEntries) \ {<<>>}
    /\ requests = <<>>
    /\ sent = <<>>
    /\ remote_calls = 0
    /\ raw_data = None
    /\ outcome = "running"
    /\ record = None
    /\ dataset_defs = LoadedDefs(cls)
    /\ calls = <<>>
    /\ IdleGrid
    /\ IdleOthers

NextAggregate ==
    \/ Aggregate
    \/ PackageMetric

SpecAggregate == InitAggregate /\ [][NextAggregate]_vars

\* ------------------------------------------------------------------ claims
CeilDiv(a, b) == IF a % b = 0 THEN a \div b ELSE (a \div b) + 1

\* C1: a measure call that ends with the area-limit error ran the gate and
\* nothing else: no geometry was prepared, no chunk was formed, no round trip
\* to the remote service was made, nothing was aggregated or packaged; and
\* the gate is the first step of every measure call.
C1_GateBeforeEverything ==
    /\ log # <<>> => log[1] = "gate"
    /\ outcome = "MetricComputeException" =>
          /\ log = <<"gate">>
          /\ feats = <<>> /\ chunks = <<>> /\ data = <<>>
          /\ requests = <<>> /\ remote_calls = 0
          /\ raw_data = None /\ record = None

\* a rejected call whose input would have been gridded and reduced
C1_Witness ==
    /\ outcome = "MetricComputeException"
    /\ gdf # <<>>
    /\ BoundsCalls(me, gdf) > 0

\* the thresholds of the claim, in pixels
C2_Threshold(s) ==
    IF s \in {"tree-loss", "protected-areas"} THEN Dec(30, 8) ELSE Dec(11, 6)

\* the four conditions of the claim: the gate is enabled, an area is given,
\* the slug is of a gated family, and area_km2 * 1e6 exceeds threshold *
\* scale^2
C2_Conditions ==
    /\ me.use_exceeds_limit
    /\ area_km2 # None
    /\ slug(cls) \in {"tree-loss", "protected-areas", "modis-fire", "modis-evi"}
    /\ DecGT(DecMul(area_km2, Dec(1, 6)),
             DecMul(C2_Threshold(slug(cls)),
                    DecMul(DecOfInt(me._scale), DecOfInt(me._scale))))

\* C2: once the gate has run, the call ended with the area-limit error
\* exactly if use_exceeds_limit is set on the instance, an area was given,
\* the slug is gated and the pixel count is strictly above the threshold.
C2_GateIff ==
    pc # "measure" => ((outcome = "MetricComputeException") <=> C2_Conditions)

\* tree loss at its default scale of 30 m: 2.7e6 km2 is exactly 3.0e9
\* pixels and was accepted
C2_Witness ==
    /\ cls = "TreeLoss" /\ me._scale = 30 /\ me.use_exceeds_limit
    /\ area_km2 = Dec(27, 5)
    /\ pc = "breakdown"

\* C3: a metric of any family constructed with use_exceeds_limit=True and
\* measured with a known area of 1e18 km2 ends with the area-limit error
\* at the gate.
C3_EveryFamilyRejects ==
    ( /\ pc # "measure"
      /\ Get(kwargs, "use_exceeds_limit", FALSE)
      /\ area_km2 = Dec(1, 18) )
    => outcome = "MetricComputeException"

\* C3 for the one gated family whose constructor does not hand its options
\* to the base class
C3_ModisEviRejects ==
    cls = "ModisEvi" => C3_EveryFamilyRejects

\* the steps of measure that have run
Ran(step) == step \in Range(log)

\* the loop of _intersect ran to its end without an error of the service
Reduced == pc = "aggregate" \/ Ran("aggregate")

\* C4: _intersect forms ceil(n / chunk_size) chunks of consecutive features,
\* each of at most chunk_size and all but the last of exactly chunk_size
\* features, every feature in exactly one chunk; the chunks are requested
\* one after another in index order; and the list handed on holds one
\* result per feature, in the order of the features.
C4_ChunksCoverInOrder ==
    Ran("intersect") =>
        /\ Len(chunks) = CeilDiv(Len(feats), me.chunk_size)
        /\ \A i \in 1 .. Len(chunks) :
              /\ Len(chunks[i]) <= me.chunk_size
              /\ i < Len(chunks) => Len(chunks[i]) = me.chunk_size
        /\ Flatten(chunks) = feats
        /\ \A i \in 1 .. Len(requests) : requests[i] = i
        /\ Len(requests) <= Len(chunks)
        /\ Reduced =>
              /\ Len(requests) = Len(chunks)
              /\ Len(data) = Len(feats)
              /\ \A i \in 1 .. Len(feats) : data[i] = Properties(cls, feats[i])

\* every chunk answered, the last of them shorter than chunk_size
C4_Witness ==
    /\ pc = "aggregate"
    /\ Len(chunks) >= 2
    /\ Len(chunks[Len(chunks)]) < me.chunk_size
    /\ Len(data) = Len(feats)

\* the longest list whose every reordering is tried
MaxPermuted == 3

\* the reorderings of a list: all of them for a short list, and for a longer
\* one its reversal, its rotation and the exchanges of two neighbours
Reorderings(s) ==
    LET n == Len(s)
    IN  IF n <= MaxPermuted
        THEN { [i \in 1 .. n |-> s[p[i]]] : p \in Permutations(1 .. n) }
        ELSE { [i \in 1 .. n |-> s[n + 1 - i]],
               [i \in 1 .. n |-> s[(i % n) + 1]] } \cup
             { [i \in 1 .. n |-> IF i = k THEN s[k + 1]
                                 ELSE IF i = k + 1 THEN s[k] ELSE s[i]] :
                 k \in 1 .. n - 1 }

\* C5: what _aggregate returns depends on the results only as a multiset:
\* the chunked results aggregate to what the results of one single chunk
\* aggregate to, and every reordering of the result list aggregates to the
\* same value (in exact arithmetic).
C5_TotalsOrderFree ==
    (Ran("aggregate") /\ ~(cls = "ProtectedAreas" /\ data = <<>>)) =>
        /\ data = GetInfo(cls, feats)
        /\ \A d \in Reorderings(data) : _aggregate(cls, d) = _aggregate(cls, data)
        /\ _aggregate(cls, data).ok => raw_data = _aggregate(cls, data).value

\* results of different features, from more than one chunk, aggregated
C5_Witness ==
    /\ Ran("aggregate")
    /\ raw_data # None
    /\ Len(chunks) >= 2
    /\ \E i, j \in 1 .. Len(data) : data[i] # data[j]

\* C6: a failure of the remote call for a chunk ends measure with that very
\* error: no chunk is requested twice, none is requested after the failed
\* one, nothing is aggregated or packaged, no record is returned, and no
\* step follows; aggregation only ever gets the complete result list.
C6_FailurePropagates ==
    /\ \A i \in 1 .. Len(requests) : requests[i] = i
    /\ Reduced => Len(data) = Len(feats)
    /\ outcome = "EEException" =>
          /\ pc = "raised"
          /\ requests # <<>> /\ requests[Len(requests)] = ci
          /\ ~Ran("aggregate") /\ ~Ran("package")
          /\ raw_data = None /\ record = None
          /\ ~ENABLED Next

\* the second of three chunks failed, the first had answered
C6_Witness ==
    /\ outcome = "EEException"
    /\ ci >= 2 /\ ci < Len(chunks)
    /\ data # <<>>

\* C7: a measure call whose result list from the remote service is empty
\* ends with the packaging error, not with a record and not with another
\* kind of error.
C7_EmptyResultIsPackageError ==
    (pc \in {"returned", "raised"} /\ Ran("aggregate") /\ data = <<>>)
        => outcome = "MetricPackageException"

\* the width and the height of the bounding box of the feature gridded
W == lon_width(Bounds(g_feat.geom))
H == lat_width(Bounds(g_feat.geom))

\* the call has returned and took the path that generates cells
Subdivided == g_pc = "done" /\ ~(g_size > W /\ g_size > H)

\* C8: when _create_grid subdivides a feature of bounding box W by H with a
\* positive grid size G, the rectangles it generates before intersecting
\* number ceil(W / G) * ceil(H / G).
C8_CellCount ==
    Subdivided => Len(g_polys) = CeilDiv(W, g_size) * CeilDiv(H, g_size)

\* a grid that does not divide the box evenly, of more than one cell
C8_Witness ==
    /\ Subdivided
    /\ W % g_size # 0
    /\ H % g_size # 0
    /\ Len(g_polys) > 1

\* C9: the list _create_grid returns holds no cell whose intersection with
\* the feature is empty, so that for a feature that leaves a cell of its
\* grid untouched it is strictly shorter than the list of generated cells.
C9_EmptyCellsDropped ==
    Subdivided =>
        /\ \A i \in 1 .. Len(g_out) : g_out[i].geom # {}
        /\ (\E i \in 1 .. Len(g_polys) : Squares(g_polys[i]) \cap g_feat.geom = {})
              => Len(g_out) < Len(g_polys)

\* C10: with a grid size above both the width and the height of the
\* bounding box _create_grid returns the feature itself as the only element,
\* generating no cell and intersecting nothing; in every other case, a grid
\* size equal to a side or above one side only included, it generates cells
\* and returns one intersection per cell.
C10_SkipOnlyWhenLargerThanBoth ==
    g_pc = "done" =>
        IF g_size > W /\ g_size > H
        THEN /\ g_out = <<g_feat>>
             /\ g_polys = <<>>
             /\ g_intersections = 0
        ELSE /\ Len(g_polys) >= 1
             /\ g_intersections = Len(g_polys)
             /\ Len(g_out) = Len(g_polys)
             /\ \A i \in 1 .. Len(g_out) :
                   g_out[i] = Intersection(g_polys[i], g_feat)

\* a grid size above the width only, and the feature was subdivided
C10_Witness ==
    /\ g_pc = "done"
    /\ g_size > W /\ g_size <= H
    /\ Len(g_polys) >= 1
    /\ g_intersections = Len(g_polys)

\* the bounding box of the feature gridded
BBox == Bounds(g_feat.geom)

\* the origins the claim names: the minimum corner plus whole steps of the
\* grid size, strictly below the maximum corner
C11_Origins ==
    { <<BBox.lon_start + i * g_size, BBox.lat_start + j * g_size>> :
        i \in 0 .. Extent, j \in 0 .. Extent } \cap
    { o \in (0 .. 2 * Extent * MaxGridSize) \X (0 .. 2 * Extent * MaxGridSize) :
        o[1] < BBox.lon_end /\ o[2] < BBox.lat_end }

\* C11: the cells _create_grid generates start at the minimum corner plus
\* whole steps of the grid size, strictly below the maximum corner; every
\* point of the bounding box lies in a cell; and no point, a point of an
\* edge two cells share included, lies in two cells.
C11_CellsTileHalfOpen ==
    Subdivided =>
        /\ {<<g_polys[i].x1, g_polys[i].y1>> : i \in 1 .. Len(g_polys)} = C11_Origins
        /\ \A i \in 1 .. Len(g_polys) :
              /\ g_polys[i].x2 = g_polys[i].x1 + g_size
              /\ g_polys[i].y2 = g_polys[i].y1 + g_size
        /\ \A pt \in Points(Rectangle(BBox.lon_start, BBox.lat_start,
                                      BBox.lon_end, BBox.lat_end)) :
              \E i \in 1 .. Len(g_polys) : pt \in Points(g_polys[i])
        /\ \A i, j \in 1 .. Len(g_polys) :
              i # j => Points(g_polys[i]) \cap Points(g_polys[j]) = {}

\* the part of C11 the cells do meet: the origins, the sizes and the cover
C11_CellsCover ==
    Subdivided =>
        /\ {<<g_polys[i].x1, g_polys[i].y1>> : i \in 1 .. Len(g_polys)} = C11_Origins
        /\ \A pt \in Points(Rectangle(BBox.lon_start, BBox.lat_start,
                                      BBox.lon_end, BBox.lat_end)) :
              \E i \in 1 .. Len(g_polys) : pt \in Points(g_polys[i])

\* the number of features the rows before row i account for
C12_Offset(i) == SumSeq([k \in 1 .. (i - 1) |-> Len(gdf[k].parts)])

\* C12: with grid disabled _breakdown_shape returns one feature per polygon
\* of a MultiPolygon row and one for a Polygon row: as many features as the
\* rows have parts, in the order of the rows and of the parts within a
\* row, each part unchanged and none left out.
C12_OneFeaturePerPart ==
    (Ran("breakdown") /\ outcome # "AttributeError" /\ ~me.grid) =>
        /\ Len(feats) = SumSeq([i \in 1 .. Len(gdf) |-> Len(gdf[i].parts)])
        /\ \A i \in 1 .. Len(gdf) : \A j \in 1 .. Len(gdf[i].parts) :
              feats[C12_Offset(i) + j] = Feature(gdf[i].parts[j])

\* a MultiPolygon of two parts followed by a Polygon gave three features
C12_Witness ==
    /\ Ran("breakdown") /\ ~me.grid
    /\ Len(gdf) = 2
    /\ gdf[1].kind = "MultiPolygon" /\ gdf[2].kind = "Polygon"
    /\ Len(feats) = 3

\* C13: every reduceRegion request sent with bestEffort set carries a
\* maxPixels of 1e7, whatever the class and the options it was constructed
\* with.
C13_BestEffortCapsPixels ==
    \A i \in 1 .. Len(sent) : sent[i].bestEffort => sent[i].maxPixels = Dec(1, 7)

\* the attribute of the instance a construction option sets
C14_Attribute(name) ==
    CASE name = "scale"       -> me._scale
      [] name = "best_effort" -> me._best_effort
      [] OTHER                -> me[name]

\* C14: during a measure call every option the caller passed to the
\* constructor is the value of the matching attribute of the instance, and
\* the scale, the pixel cap and the best-effort flag of every request are
\* those attributes.
C14_OptionsInEffect ==
    pc # "measure" =>
        /\ \A name \in DOMAIN kwargs : C14_Attribute(name) = kwargs[name]
        /\ \A i \in 1 .. Len(sent) : sent[i] = ReduceParams(me)

\* C14 for the class whose constructor calls the base constructor without
\* its keyword arguments
C14_ModisEviOptionsInEffect ==
    cls = "ModisEvi" => C14_OptionsInEffect

\* the quotient q is 100 * part / whole
IsPercentOf(q, part, whole) == q.num * whole = 100 * part * q.den

C16_UnprotectedIsResidual ==
    (cls = "ProtectedAreas" /\ outcome = "returned") =>
        LET r == record
        IN  /\ r.unprotected_area_km2
                 = r.area_km2 - (r.marine_area_km2 + r.terrestrial_area_km2)
            /\ r.marine_area_km2 + r.terrestrial_area_km2 + r.unprotected_area_km2
                 = r.area_km2
            /\ IsPercentOf(r.marine_perc, r.marine_area_km2, r.area_km2)
            /\ IsPercentOf(r.terrestrial_perc, r.terrestrial_area_km2, r.area_km2)
            /\ IsPercentOf(r.unprotected_perc, r.unprotected_area_km2, r.area_km2)

\* what the record's unprotected area is: the sum of the area reduced over
\* the pixels of value 0, one feature after the other
C16_UnprotectedIsMeasured ==
    (cls = "ProtectedAreas" /\ outcome = "returned") =>
        record.unprotected_area_km2 = SumOf(data, "area_unprotected")

\* the metric classes whose record has an area_km2 field
C17_ReportsArea == Classes \ {"ModisFire"}

\* the pixel area summed over the geometry of every feature reduced
C17_PixelArea == SumSeq([i \in 1 .. Len(feats) |-> Cardinality(feats[i].geom)])

\* C17: the area_km2 of a record is the sum, over the features reduced, of
\* the pixel area reduced over each feature.
C17_AreaIsSumOfFeatureAreas ==
    (cls \in C17_ReportsArea /\ outcome = "returned") =>
        record.area_km2 = C17_PixelArea

\* C17 holds for every class but LandUseLandCover, and their means and
\* percentages have that total for denominator
C17_AreaIsSumExceptLandCover ==
    (cls \in C17_ReportsArea \ {"LandUseLandCover"} /\ outcome = "returned") =>
        /\ record.area_km2 = C17_PixelArea
        /\ cls = "HumanFootprint" =>
              /\ record.mean_09.den = record.area_km2
              /\ record.mean_93.den = record.area_km2
        /\ cls = "BiodiversityIntactnessMetric" => raw_data.mean.den = record.area_km2
        /\ cls = "ModisEvi" =>
              \A i \in DOMAIN record.year_data :
                  record.year_data[i].norm.den = record.area_km2
        /\ cls = "TerrestrialCarbon" => record.carbon_density.den = record.area_km2

\* C18: a call of _aggregate leaves the state of the instance as the
\* constructor set it, the loaded dataset definitions included, and its
\* result is the value of the function _aggregate at the list it was given.
C18_AggregateLeavesInstance ==
    Ran("aggregate") =>
        /\ me = Construct(cls, kwargs)
        /\ dataset_defs = LoadedDefs(cls)
        /\ raw_data # None => raw_data = _aggregate(cls, data).value

\* the part of C18 that holds: the summary is a function of the list alone
C18_SummaryIsFunctionOfList ==
    (Ran("aggregate") /\ raw_data # None) => raw_data = _aggregate(cls, data).value

\* the record a call of measure on its own returns for a GeoDataFrame
C19_OwnRecord(g) ==
    _package_metric(cls, _aggregate(cls, GetInfo(cls, _breakdown_shape(me, g))).value).value

\* C19: of two measure calls running at once on one instance, each returns
\* the record of its own input, whatever the interleaving.
C19_CallsDoNotInterfere ==
    \A t \in DOMAIN calls :
        calls[t].pc = "returned" => calls[t].record = C19_OwnRecord(calls[t].gdf)

\* C19 holds for the classes whose _aggregate keeps to local variables
C19_OtherClassesDoNotInterfere ==
    cls # "LandUseLandCover" => C19_CallsDoNotInterfere

\* C20: the mask of a week whose end day E is below its start day S keeps
\* exactly the days d >= S or d < E, and the mask of a week with S < E keeps
\* exactly the days S <= d < E.
C20_MaskSelectsBucketDays ==
    \A i \in DOMAIN dates :
        iso_date(dates[i]) \in DOMAIN images =>
            LET S == dates[i].start
                E == dates[i].end
                kept == images[iso_date(dates[i])]
            IN  /\ E < S => kept = {d \in DayOfYear : d >= S \/ d < E}
                /\ S < E => kept = {d \in DayOfYear : S <= d /\ d < E}

\* what the masks keep: the same ranges, closed by the day before the
\* week's end day
C20_MaskSelectsUpToDayBeforeEnd ==
    \A i \in DOMAIN dates :
        iso_date(dates[i]) \in DOMAIN images =>
            LET S == dates[i].start
                E == dates[i].end - 1
                kept == images[iso_date(dates[i])]
            IN  /\ E < S => kept = {d \in DayOfYear : d >= S \/ d < E}
                /\ S < E => kept = {d \in DayOfYear : S <= d /\ d < E}
                /\ S = E => kept = {}

\* C21: during a measure call the round trips to the remote service are the
\* requests of _intersect and no others.
C21_OnlyIntersectCallsOut ==
    remote_calls = Len(requests)

\* the round trips that are not requests of _intersect are the bounds
\* _create_grid fetches, one for each part it grids; aggregation and
\* packaging make none
C21_OthersAreGridBounds ==
    remote_calls =
        Len(requests) + (IF Ran("breakdown") THEN BoundsCalls(me, gdf) ELSE 0)

RECURSIVE C22_Stored(_, _)
\* the value a document stores under a path all of whose keys are present,
\* and NotThere where a key along the path is absent
C22_Stored(node, path) ==
    IF path = <<>> THEN [there |-> TRUE, value |-> node]
    ELSE IF node.kind = "dict" /\ Head(path) \in DOMAIN node.items
         THEN C22_Stored(node.items[Head(path)], Tail(path))
         ELSE [there |-> FALSE]

\* C22: a lookup without a default raises ConfigurationException when any
\* key of the path, at any depth, is absent from the document, and returns
\* the stored value when every key of the path is present.
C22_MissingKeyIsConfigurationError ==
    (c_pc = "done" /\ c_default = Null) =>
        LET st == C22_Stored(config, property_path)
        IN  IF st.there
            THEN prop = [ok |-> TRUE, value |-> st.value]
            ELSE prop = [ok |-> FALSE, error |-> "ConfigurationException"]

\* what the lookup does: the configuration error is raised when the last
\* key alone is absent from its mapping, or when the stored value is null;
\* a stored value that is not null is returned
C22_LastKeyMissingIsConfigurationError ==
    (c_pc = "done" /\ c_default = Null) =>
        LET st     == C22_Stored(config, property_path)
            n      == Len(property_path)
            parent == C22_Stored(config, SubSeq(property_path, 1, n - 1))
        IN  /\ (st.there /\ st.value # Null) => prop = [ok |-> TRUE, value |-> st.value]
            /\ (st.there /\ st.value = Null) => prop.error = "ConfigurationException"
            /\ (~st.there /\ parent.there /\ parent.value.kind = "dict") =>
                   prop = [ok |-> FALSE, error |-> "ConfigurationException"]

\* what part i of the decomposed rows stands for in the list returned: the
\* list the gridder returns for it when its area is above the threshold,
\* the part itself otherwise
C23_Piece(i) ==
    LET part == Polygons(gdf)[i]
    IN  IF Cardinality(part) > me.area_threshold
        THEN _create_grid(Feature(part), me.grid_size_degrees)
        ELSE <<Feature(part)>>

\* the number of features the parts before part i account for
C23_Start(i) == SumSeq([k \in 1 .. (i - 1) |-> Len(C23_Piece(k))])

\* C23: with grid enabled the list _breakdown_shape returns is, part by part
\* and in the order of the parts, the gridder's fragments for a part whose
\* area_km2 is strictly above area_threshold and the unchanged part for
\* every other one, a part whose area equals the threshold included.
C23_GriddedIffAboveThreshold ==
    (Ran("breakdown") /\ outcome # "AttributeError" /\ me.grid) =>
        LET n == Len(Polygons(gdf))
        IN  /\ Len(feats) = C23_Start(n + 1)
            /\ \A i \in 1 .. n :
                  SubSeq(feats, C23_Start(i) + 1, C23_Start(i) + Len(C23_Piece(i)))
                      = C23_Piece(i)

\* a part below the threshold, a part at the threshold and a part above it:
\* the first two stand unchanged, the fragments of the third follow them
C23_Witness ==
    /\ Ran("breakdown") /\ me.grid /\ me.area_threshold = 2
    /\ Len(gdf) = 2
    /\ gdf[1].kind = "MultiPolygon" /\ gdf[2].kind = "Polygon"
    /\ Cardinality(gdf[1].parts[2]) = 2
    /\ feats[2] = Feature(gdf[1].parts[2])
    /\ Len(feats) = 6
    /\ \A k \in 3 .. 6 : feats[k].geom \subseteq gdf[2].parts[1]

\* the values of mask_im a keyword argument asks for
C24_Asked(k, v) ==
    CASE k = "gt"    -> {x \in PixelValues : x > v}
      [] k = "gte"   -> {x \in PixelValues : x >= v}
      [] k = "lt"    -> {x \in PixelValues : x < v}
      [] k = "lte"   -> {x \in PixelValues : x <= v}
      [] k = "eq"    -> {x \in PixelValues : x = v}
      [] k = "eq_or" -> {x \in PixelValues : x \in Range(v)}
      [] k = "range" -> {x \in PixelValues : v[1] <= x /\ x < v[2]}

\* C24: the mask simple_mask_function applies keeps exactly the pixels that
\* satisfy the predicate asked for; for eq_or, those equal to any element
\* of the given set, whatever the set's size.
C24_MaskKeepsPredicate ==
    m_pc = "done" =>
        m_mask = [ok |-> TRUE, kept |-> C24_Asked(m_kwargs[1][1], m_kwargs[1][2])]

\* C24 for every predicate but an eq_or of one value or of more than two
C24_MaskKeepsPredicateButEqOr ==
    (m_pc = "done" /\ (m_kwargs[1][1] = "eq_or" => Len(m_kwargs[1][2]) = 2)) =>
        m_mask = [ok |-> TRUE, kept |-> C24_Asked(m_kwargs[1][1], m_kwargs[1][2])]

\* the features of data that carry a histogram
C25_WithHistogram == {i \in 1 .. Len(data) : data[i]["bii"] # None}

\* the count of the bins of feature i whose edge, rounded to two decimals
\* (edges are in thousandths), is k
C25_CountAt(i, k) ==
    LET h == data[i]["bii"]
    IN  SumSet({j \in 1 .. Len(h) : ((h[j][1] + 5) \div 10) * 10 = k},
               [j \in 1 .. Len(h) |-> h[j][2]])

\* the count of all bins of feature i
C25_CountOf(i) ==
    LET h == data[i]["bii"]
    IN  SumSeq([j \in 1 .. Len(h) |-> h[j][2]])

\* C25: in the biodiversity-intactness summary each of the ten bins is the
\* sum, over the features that carry a histogram, of the counts under the
\* same rounded edge; the ten bins together count what the histograms of
\* all features count; a feature without a histogram adds nothing; and the
\* mean is the sum of area_product over the sum of area.
C25_BinsAreSumsOfFeatureBins ==
    (cls = "BiodiversityIntactnessMetric" /\ Ran("aggregate") /\ raw_data # None) =>
        /\ DOMAIN raw_data.bii = {100 * i : i \in 0 .. 9}
        /\ \A k \in DOMAIN raw_data.bii :
              raw_data.bii[k] =
                  SumSet(C25_WithHistogram, [i \in C25_WithHistogram |-> C25_CountAt(i, k)])
        /\ SumSet(DOMAIN raw_data.bii, raw_data.bii) =
              SumSet(C25_WithHistogram, [i \in C25_WithHistogram |-> C25_CountOf(i)])
        /\ raw_data.mean =
              Rat(SumSeq([i \in 1 .. Len(data) |-> data[i]["area_product"]]),
                  SumSeq([i \in 1 .. Len(data) |-> data[i]["area"]]))

\* features with a histogram, two of them counting in the same bin, and a
\* feature without one were aggregated
C25_Witness ==
    /\ cls = "BiodiversityIntactnessMetric" /\ Ran("aggregate") /\ raw_data # None
    /\ \E i \in 1 .. Len(data) : data[i]["bii"] = None
    /\ \E i, j \in C25_WithHistogram :
          /\ i # j
          /\ \E k \in {100 * b : b \in 0 .. 9} :
                C25_CountAt(i, k) > 0 /\ C25_CountAt(j, k) > 0

\* C26: of the weeks ModisFire builds, no two that are taken of the same
\* year's burn dates keep a day in common.
C26_WeekMasksDisjoint ==
    \A i, j \in DOMAIN dates :
        ( /\ i # j
          /\ dates[i].year = dates[j].year
          /\ iso_date(dates[i]) \in DOMAIN images
          /\ iso_date(dates[j]) \in DOMAIN images
          /\ iso_date(dates[i]) # iso_date(dates[j]) )
        => images[iso_date(dates[i])] \cap images[iso_date(dates[j])] = {}

\* the weeks whose mask is the AND of the two comparisons and that follow
\* one another keep no day in common
C26_PlainNeighboursDisjoint ==
    \A i \in DOMAIN dates :
        ( /\ i + 1 \in DOMAIN dates
          /\ dates[i].year = dates[i + 1].year
          /\ iso_date(dates[i]) \in DOMAIN images
          /\ iso_date(dates[i + 1]) \in DOMAIN images
          /\ dates[i].start < dates[i].end
          /\ dates[i + 1].start < dates[i + 1].end )
        => images[iso_date(dates[i])] \cap images[iso_date(dates[i + 1])] = {}

\* C27: every week _aggregate reports has its band among those built at
\* construction: the weeks come from the same _generate_isoweek, and the
\* ISO year of each lies in the calendar years the construction went over.
C27_EveryWeekHasItsBand ==
    (dates # <<>> /\ images # <<>>) =>
        \A i \in DOMAIN dates : iso_date(dates[i]) \in DOMAIN images

\* the weeks reported have names of their own, and a band that was built is
\* the band of a week reported
C27_BandNamesUnique ==
    /\ \A i, j \in DOMAIN dates : iso_date(dates[i]) = iso_date(dates[j]) => i = j
    /\ \A key \in DOMAIN images : \E i \in DOMAIN dates : iso_date(dates[i]) = key

\* C28: every call of _create_grid comes to its end, whatever the bounding
\* box and whatever the grid size, zero and negative sizes included.
C28_CreateGridTerminates == <>(g_pc = "done")

\* a call with a positive grid size comes to its end
C28_PositiveSizeTerminates == (g_size > 0) ~> (g_pc = "done")

\* and what it returns is the list of the whole call
C28_StepsAgreeWithCall ==
    (g_pc = "done" /\ g_size > 0) =>
        /\ g_out = _create_grid(g_feat, g_size)
        /\ g_polys = (IF GridLargerThanFeature(g_size, Bounds(g_feat.geom))
                      THEN <<>> ELSE GridPolys(Bounds(g_feat.geom), g_size))

\* the quotient q is the number n over the number d
C30_IsQuotient(q, n, d) == q.num * d = n * q.den

\* C30: in the terrestrial-carbon record every density is the total of the
\* same name over area_km2 (carbon_density of carbon_total_t, soil_density
\* of soil_total_t, total_density of carbon_soil_total_t), and soil_total_t
\* is carbon_soil_total_t less carbon_total_t.
C30_DensitiesOfLikeNamedTotals ==
    (cls = "TerrestrialCarbon" /\ pc = "returned") =>
        /\ record.soil_total_t = record.carbon_soil_total_t - record.carbon_total_t
        /\ C30_IsQuotient(record.carbon_density, record.carbon_total_t, record.area_km2)
        /\ C30_IsQuotient(record.soil_density, record.soil_total_t, record.area_km2)
        /\ C30_IsQuotient(record.total_density, record.carbon_soil_total_t, record.area_km2)

\* what the record holds: the totals as named, and each density under the
\* name of another total
C30_DensitiesOfOtherTotals ==
    (cls = "TerrestrialCarbon" /\ pc = "returned") =>
        /\ record.soil_total_t = record.carbon_soil_total_t - record.carbon_total_t
        /\ C30_IsQuotient(record.carbon_density, record.carbon_soil_total_t, record.area_km2)
        /\ C30_IsQuotient(record.soil_density, record.carbon_total_t, record.area_km2)
        /\ C30_IsQuotient(record.total_density, record.soil_total_t, record.area_km2)

\* the sum of a band of ModisEvi over the features
C29_Sum(b) == SumSeq([i \in 1 .. Len(data) |-> data[i]["modis_evi"][b]])

\* C29: the aggregation of ModisEvi over results whose areas sum to a
\* positive total ends without an arithmetic error, whatever the sums of
\* the years, all of them zero included.
C29_NoArithmeticError ==
    (cls = "ModisEvi" /\ Ran("aggregate") /\ C29_Sum("area") > 0) =>
        outcome # "ZeroDivisionError"

\* over a positive total area the aggregation divides by zero when the sum
\* of every year is zero, and in no other case
C29_ErrorIffAllYearsZero ==
    (cls = "ModisEvi" /\ Ran("aggregate") /\ C29_Sum("area") > 0) =>
        (outcome = "ZeroDivisionError" <=> \A y \in Range(_years) : C29_Sum(y) = 0)

====
